---- MODULE Spec2Model ----
(***************************************************************************)
(* The HTTP transport of the Keywords Everywhere MCP server (src/index.js): *)
(* the session map, the POST/DELETE/GET/OPTIONS handlers of /mcp, the       *)
(* JSON-RPC dispatcher processMcpRequest and the upstream client            *)
(* makeApiCall.  A POST handler runs without interruption up to its first   *)
(* await on the network (axios) or on a timer (the 429 backoff); the model  *)
(* has one action for each such uninterrupted stretch.                      *)
(***************************************************************************)
EXTENDS Integers, Sequences, FiniteSets, TLC

(***************************************************************************)
(* Bounds of the model.                                                     *)
(***************************************************************************)
MaxInflight == 2
MaxBatch == 3
MaxTime == 1
MaxMintCount == 2

(***************************************************************************)
(* JavaScript values.  A missing header, property or variable is Undefined; *)
(* an empty header value is the empty string.  Request identifiers are      *)
(* integers, with two values standing for an absent and a null identifier.  *)
(***************************************************************************)
Undefined == "undefined"
IdUndefined == -1
IdNull == -2
Truthy(s) == s # Undefined /\ s # ""

\* Protocol-version header values, as character sequences
VUndefined == <<"undefined">>
V_empty == << >>
V_2025_06_18 == <<"2", "0", "2", "5", "-", "0", "6", "-", "1", "8">>
V_2024_11_05 == <<"2", "0", "2", "4", "-", "1", "1", "-", "0", "5">>
V_2025_03_26 == <<"2", "0", "2", "5", "-", "0", "3", "-", "2", "6">>
PREFIX_2025 == <<"2", "0", "2", "5", "-">>
VTruthy(v) == v # VUndefined /\ v # V_empty
startsWith(s, p) == Len(s) >= Len(p) /\ SubSeq(s, 1, Len(p)) = p

\* The identifiers generateSessionId can return
SessionIds == {"session_a", "session_b"}

\* The tool registry: the keys of the object TOOLS in the order of their
\* registration, which is the order Object.keys(TOOLS) lists them in
ObjectKeysTOOLS ==
  <<"get_credits", "get_countries", "get_currencies", "get_keyword_data",
    "get_related_keywords", "get_pasf_keywords", "get_domain_keywords",
    "get_url_keywords", "get_domain_traffic", "get_url_traffic",
    "get_domain_backlinks", "get_unique_domain_backlinks",
    "get_page_backlinks", "get_unique_page_backlinks">>
TOOLS == {ObjectKeysTOOLS[k] : k \in DOMAIN ObjectKeysTOOLS}
\* A handler table that lacks the handler of one registered tool
handlers_OneMissing ==
  {"get_credits", "get_countries", "get_currencies", "get_keyword_data",
   "get_related_keywords", "get_pasf_keywords", "get_domain_keywords",
   "get_url_keywords", "get_domain_traffic", "get_url_traffic",
   "get_domain_backlinks", "get_unique_domain_backlinks",
   "get_page_backlinks"}
\* The handler table: the keys of the object handlers
handlers ==
  {"get_credits", "get_countries", "get_currencies", "get_keyword_data",
   "get_related_keywords", "get_pasf_keywords", "get_domain_keywords",
   "get_url_keywords", "get_domain_traffic", "get_url_traffic",
   "get_domain_backlinks", "get_unique_domain_backlinks",
   "get_page_backlinks", "get_unique_page_backlinks"}
\* The handlers that never read their argument
NoArgHandlers == {"get_credits", "get_countries", "get_currencies"}

\* JSON-RPC error codes and HTTP statuses the handlers use
E_VERSION == -32600
E_NOT_FOUND == -32601
E_INTERNAL == -32603
E_SESSION_NOT_FOUND == -32000
E_SESSION_REQUIRED == -32002

\* Upstream answers to one HTTP call: a status, or 0 for a network fault
NetworkFault == 0
UpstreamStatuses == {200, 400, 401, 429, 500, NetworkFault}

Slots == 1..MaxInflight

VARIABLES
  sessions,         \* the session map: identifier -> [id, createdAt]
  requestApiKey,    \* the module-level variable of that name
  DEFAULT_API_KEY,  \* the configured default credential, fixed at start
  now,              \* Date.now()
  inflight,         \* per slot: a POST suspended in an await, or Idle
  last,             \* the most recent completed HTTP exchange
  issued,           \* ids returned by an initialize without session id and
                    \* not successfully deleted since (from the exchanges)
  terminated,       \* ids some DELETE has succeeded for (from the exchanges)
  mintCount,        \* how often each id was handed out as a new session
  analytics         \* the usage counters: which of their tables exist

vars == <<sessions, requestApiKey, DEFAULT_API_KEY, now, inflight, last,
          issued, terminated, mintCount, analytics>>

(***************************************************************************)
(* Requests and responses.                                                  *)
(***************************************************************************)
\* One JSON-RPC request object.  params is present or not; tool is
\* params.name (tools/call) or params.tool (invoke); hasArgs tells whether
\* params.arguments / params.params is present.
Element(id, method, hasParams, tool, hasArgs) ==
  [id |-> id, method |-> method, hasParams |-> hasParams, tool |-> tool,
   hasArgs |-> hasArgs, isObject |-> TRUE]
\* The JSON value null as an element of a batch: it has no property at all
JsonNull ==
  [Element(IdUndefined, Undefined, FALSE, Undefined, FALSE)
     EXCEPT !.isObject = FALSE]

\* An HTTP request: the Mcp-Session-Id and MCP-Protocol-Version headers, the
\* query parameter apiKey (key), the X-API-Key header (xkey) and the parsed
\* body (one request object, or an array of them)
RequestX(sid, ver, key, xkey, batch, elems) ==
  [sid |-> sid, ver |-> ver, key |-> key, xkey |-> xkey, batch |-> batch,
   elems |-> elems]
\* A request without X-API-Key header
Request(sid, ver, key, batch, elems) ==
  RequestX(sid, ver, key, Undefined, batch, elems)

\* The body of an upstream error response (error.response.data): an object
\* whose message is a non-empty string, a non-empty string, an object
\* without message, or nothing; words are the keywords a string contains
Keywords == {"credit", "subscription", "plan", "limit", "rate"}
Payload(form, words) == [form |-> form, words |-> words]
PlainPayload == Payload("message", {})
Payloads ==
  {Payload(f, w) : f \in {"message", "string"}, w \in SUBSET Keywords}
  \cup {Payload("object", {}), Payload("empty", {})}

\* What the text of an error of makeApiCall is made of: the status it names
\* ("" when the text is fixed), where the upstream message in it comes from
\* ("none" when there is none in it), the keywords that message contains and
\* the guidance sentence added
NoDetail == [status |-> "", upstream |-> "none", words |-> {},
             guidance |-> "none"]

\* A response object.  jsonrpc tells whether the marker is there; id is
\* IdUndefined when the key is left out; kind is "result" or "error"; code is
\* 0 in a result; isError is "absent", "true" or "false"; tools is the list
\* of tool names in the result of tools/list and empty in every other object;
\* protocolVersion, capabilities (the keys of that object) and serverInfo
\* (name and version) are those of the result of initialize; content is the
\* list of the types of the content blocks of a tool result; detail tells
\* what the text of an upstream error is made of
Envelope(jsonrpc, id, kind, code, isError, msg) ==
  [jsonrpc |-> jsonrpc, id |-> id, kind |-> kind, code |-> code,
   isError |-> isError, msg |-> msg, tools |-> << >>,
   protocolVersion |-> VUndefined, capabilities |-> {}, serverInfo |-> << >>,
   content |-> << >>, detail |-> NoDetail]
Result(id, isError, msg) == Envelope(TRUE, id, "result", 0, isError, msg)
Error(id, code, msg) == Envelope(TRUE, id, "error", code, "absent", msg)
BareError(code, msg) ==
  Envelope(FALSE, IdUndefined, "error", code, "absent", msg)

\* An HTTP response: status, the Mcp-Session-Id header (or Undefined), and
\* the body: none, one object, or an array
Response(status, sidHdr, bodyKind, body) ==
  [status |-> status, sidHdr |-> sidHdr, bodyKind |-> bodyKind, body |-> body]

NoRequest == Request(Undefined, VUndefined, Undefined, FALSE, << >>)
\* What the upstream calls made for one request looked like: the answers
\* they got (replies), the credential each was authorized with (keys), the
\* backoff delays waited in ms (delays), and the value requestApiKey had
\* when the request arrived (rkBefore); idxs tells for each call which
\* element of the body it was made for, data the body of the answer
\* that ended the last call
Upstream(replies, keys, delays, rkBefore) ==
  [replies |-> replies, keys |-> keys, delays |-> delays,
   rkBefore |-> rkBefore, idxs |-> << >>, data |-> Payload("empty", {})]
NoUpstream(rkBefore) == Upstream(<< >>, << >>, << >>, rkBefore)
NoExchange ==
  [verb |-> "none", req |-> NoRequest,
   resp |-> Response(0, Undefined, "none", << >>),
   before |-> << >>, calls |-> 0, replies |-> << >>, keys |-> << >>,
   delays |-> << >>, rkBefore |-> Undefined, idxs |-> << >>,
   data |-> Payload("empty", {}), gone |-> {}]
\* before is the session map when the request arrived, calls the number of
\* upstream HTTP calls made for it and up what these calls looked like;
\* gone is filled in when the response is sent: the identifiers for which a
\* DELETE had succeeded before
Exchange(verb, req, resp, before, calls, up) ==
  [verb |-> verb, req |-> req, resp |-> resp, before |-> before,
   calls |-> calls, replies |-> up.replies, keys |-> up.keys,
   delays |-> up.delays, rkBefore |-> up.rkBefore, idxs |-> up.idxs,
   data |-> up.data, gone |-> {}]

Idle == [pc |-> "idle"]

\* getApiKey(), when requestApiKey holds rk
getApiKey(rk) == IF Truthy(rk) THEN rk ELSE DEFAULT_API_KEY

\* The usage counters.  requests tells whether the tables trackRequest
\* writes to are there, tools whether those of trackToolCall are; the
\* counts themselves are in the field counters when they are followed, no
\* handler of /mcp reads them
defaultAnalytics == [requests |-> TRUE, tools |-> TRUE]
\* loadAnalytics(): the defaults, or whatever object the analytics file holds
loadAnalytics == [requests : BOOLEAN, tools : BOOLEAN]

\* The server has started
Started ==
  /\ sessions = << >>
  /\ requestApiKey = Undefined
  /\ DEFAULT_API_KEY \in {Undefined, "default_key"}
  /\ now = 0
  /\ inflight = [s \in Slots |-> Idle]
  /\ last = NoExchange
  /\ issued = {}
  /\ terminated = {}
  /\ mintCount = [i \in SessionIds |-> 0]

\* The start without analytics file, or with one the server has saved
Init == Started /\ analytics = defaultAnalytics
\* The start with any analytics file
InitLoaded == Started /\ analytics \in loadAnalytics

\* trackRequest and trackToolCall: a TypeError when a table is missing
trackRequest == IF analytics.requests THEN "ok" ELSE "throw"
trackToolCall == IF analytics.tools THEN "ok" ELSE "throw"

(***************************************************************************)
(* processMcpRequest, up to its first await.  The outcome is one of         *)
(*   null    the request is a notification: nothing to answer               *)
(*   return  a response object                                              *)
(*   throw   an exception leaves processMcpRequest                          *)
(*   await   the tool handler has reached the axios call of makeApiCall     *)
(***************************************************************************)
Null == [kind |-> "null", env |-> BareError(0, ""), msg |-> ""]
Return(env) == [kind |-> "return", env |-> env, msg |-> ""]
Throw(msg) == [kind |-> "throw", env |-> BareError(0, ""), msg |-> msg]
Await == [kind |-> "await", env |-> BareError(0, ""), msg |-> ""]

\* Properties every JavaScript object inherits: TOOLS[name] and
\* handlers[name] find them as well as the registered names
ObjectPrototype == {"toString", "constructor"}
toolDef(name) == name \in TOOLS \cup ObjectPrototype
handler(name) == name \in handlers \cup ObjectPrototype

\* A catch block that reports every failure of a tool as a JSON-RPC error
ToolFailed_AsError(el, msg) == Error(el.id, E_INTERNAL, msg)

\* The catch block of tools/call and of invoke, for a failure with text msg
ToolFailed(el, msg) ==
  IF el.method = "tools/call"
  THEN [Result(el.id, "true", msg) EXCEPT !.content = <<"text">>]
  ELSE Error(el.id, E_INTERNAL, msg)

\* The return after the handler and formatResponse have succeeded
ToolSucceeded(el) ==
  IF el.method = "tools/call"
  THEN [Result(el.id, "absent", "formatted") EXCEPT !.content = <<"text">>]
  ELSE Result(el.id, "false", "formatted")

\* makeApiCall without the credential check
makeApiCallStart_NoKeyCheck(el, rk) == Await

\* makeApiCall up to axios: the credential check
makeApiCallStart(el, rk) ==
  IF ~Truthy(getApiKey(rk))
  THEN Return(ToolFailed(el, "No API key available"))
  ELSE Await

\* handler(args): the handlers of the registry build their upstream request
\* from args (a TypeError when args is undefined and the handler reads it)
\* and call makeApiCall; the inherited functions return at once
callHandler(el, hasArgs, rk) ==
  IF el.tool \in ObjectPrototype
  THEN Return(ToolSucceeded(el))
  ELSE IF ~hasArgs /\ el.tool \notin NoArgHandlers
       THEN Return(ToolFailed(el, "TypeError"))
       ELSE makeApiCallStart(el, rk)

toolsCall(el, rk) ==
  IF ~el.hasParams THEN Throw("TypeError")
  ELSE IF trackToolCall = "throw" THEN Throw("TypeError")
  ELSE IF ~toolDef(el.tool)
       THEN Return(Error(el.id, E_NOT_FOUND, "Tool not found"))
       ELSE IF ~handler(el.tool)
            THEN Return(Error(el.id, E_NOT_FOUND, "Handler not found"))
            ELSE callHandler(el, TRUE, rk)   \* handler(toolArgs || {})

invoke(el, rk) ==
  IF ~el.hasParams THEN Throw("TypeError")
  ELSE IF ~toolDef(el.tool)
       THEN Return(Error(el.id, E_NOT_FOUND, "Tool not found"))
       ELSE IF ~handler(el.tool)
            THEN Return(Error(el.id, E_NOT_FOUND, "Handler not found"))
            ELSE callHandler(el, el.hasArgs, rk)   \* handler(params)

\* An initialize that lists the tools in its result
InitializeResult_WithTools(el) ==
  [Result(el.id, "absent", "initialize")
     EXCEPT !.protocolVersion = V_2025_06_18,
            !.capabilities = {"tools"},
            !.serverInfo = <<"mcp-keywords-everywhere", "1.1.0">>,
            !.tools = ObjectKeysTOOLS]

\* The result of initialize: protocolVersion, capabilities and serverInfo;
\* the list of tools the branch builds is not part of it
InitializeResult(el) ==
  [Result(el.id, "absent", "initialize")
     EXCEPT !.protocolVersion = V_2025_06_18,
            !.capabilities = {"tools"},
            !.serverInfo = <<"mcp-keywords-everywhere", "1.1.0">>]

\* The result of tools/list: one entry for each key of TOOLS, in the order
\* of Object.keys, under the name that is its key
toolsList == [k \in DOMAIN ObjectKeysTOOLS |-> ObjectKeysTOOLS[k]]
ToolsListResult(el) ==
  [Result(el.id, "absent", "tools/list") EXCEPT !.tools = toolsList]

\* A dispatcher without the final else: an unknown method gets no answer
processMcpRequest_NoElse(el, rk) ==
  IF ~el.isObject THEN Throw("TypeError")
  ELSE IF el.id = IdUndefined \/ el.id = IdNull THEN Null
  ELSE IF el.method = "initialize"
       THEN Return(InitializeResult(el))
  ELSE IF el.method = "tools/list"
       THEN Return(ToolsListResult(el))
  ELSE IF el.method = "tools/call" THEN toolsCall(el, rk)
  ELSE IF el.method = "invoke" THEN invoke(el, rk)
  ELSE Null

processMcpRequest(el, rk) ==
  IF ~el.isObject THEN Throw("TypeError")   \* request.id of null
  ELSE IF el.id = IdUndefined \/ el.id = IdNull THEN Null
  ELSE IF el.method = "initialize"
       THEN Return(InitializeResult(el))
  ELSE IF el.method = "tools/list"
       THEN Return(ToolsListResult(el))
  ELSE IF el.method = "tools/call" THEN toolsCall(el, rk)
  ELSE IF el.method = "invoke" THEN invoke(el, rk)
  ELSE Return(Error(el.id, E_NOT_FOUND, "Method not supported"))

(***************************************************************************)
(* The body of app.post('/mcp') after session resolution: the loop over a   *)
(* batch, or the single request, from element i on, until an await or the   *)
(* HTTP response.                                                           *)
(***************************************************************************)
someInitialize(elems) ==
  \E k \in 1..Len(elems) : elems[k].method = "initialize"

\* A batch response that never carries the session header
BatchResponse_NoHeader(req, sessionId, resps) ==
  Response(200, Undefined, "array", resps)

\* res.json(responses) of a batch
BatchResponse(req, sessionId, resps) ==
  Response(200,
           IF someInitialize(req.elems) THEN sessionId ELSE Undefined,
           "array", resps)

\* The response to a single request whose processing has ended with o
SingleResponse(req, sessionId, o) ==
  LET el == req.elems[1]
      hdr == IF el.method = "initialize" THEN sessionId ELSE Undefined
  IN  CASE o.kind = "throw" ->
             Response(500, Undefined, "object",
                      <<Error(el.id, E_INTERNAL, o.msg)>>)
        [] o.kind = "return" -> Response(200, hdr, "object", <<o.env>>)
        [] OTHER -> Response(202, hdr, "none", << >>)

Done(resp, calls) ==
  [pc |-> "done", resp |-> resp, idx |-> 0, responses |-> << >>,
   calls |-> calls]
Suspended(i, resps, calls) ==
  [pc |-> "axios", resp |-> Response(0, Undefined, "none", << >>),
   idx |-> i, responses |-> resps, calls |-> calls]

\* The catch block at the end of the POST handler
InternalServerError ==
  Response(500, Undefined, "object",
           <<BareError(E_INTERNAL, "Internal server error")>>)

RECURSIVE RunFrom(_, _, _, _, _, _)
\* Element i has ended with o (not an await): record it and go on.  The
\* catch block of the loop reads request.id: for the element null it throws
\* in its turn, and the exception ends the loop
Settle(req, sessionId, i, resps, calls, o, rk) ==
  IF ~req.batch THEN Done(SingleResponse(req, sessionId, o), calls)
  ELSE IF o.kind = "throw" /\ ~req.elems[i].isObject
  THEN Done(InternalServerError, calls)
  ELSE LET el == req.elems[i]
           resps2 ==
             CASE o.kind = "return" -> Append(resps, o.env)
               [] o.kind = "throw" ->
                    Append(resps, Error(el.id, E_INTERNAL, o.msg))
               [] OTHER -> resps
       IN  RunFrom(req, sessionId, i + 1, resps2, calls, rk)

\* A loop that takes the elements from the last to the first
RunFrom_Backwards(req, sessionId, i, resps, calls, rk) ==
  IF i > Len(req.elems)
  THEN Done(BatchResponse(req, sessionId, resps), calls)
  ELSE LET o == processMcpRequest(req.elems[Len(req.elems) + 1 - i], rk)
       IN  IF o.kind = "await"
           THEN Suspended(i, resps, calls + 1)
           ELSE Settle(req, sessionId, i, resps, calls, o, rk)

RunFrom(req, sessionId, i, resps, calls, rk) ==
  IF i > Len(req.elems)
  THEN Done(BatchResponse(req, sessionId, resps), calls)
  ELSE LET o == processMcpRequest(req.elems[i], rk)
       IN  IF o.kind = "await"
           THEN Suspended(i, resps, calls + 1)
           ELSE Settle(req, sessionId, i, resps, calls, o, rk)

(***************************************************************************)
(* What the exchanges show: the observers behind issued, terminated and     *)
(* mintCount read only requests and responses, never the session map.       *)
(***************************************************************************)
\* An initialize sent without a session identifier that came back with an
\* identifier in the Mcp-Session-Id header
IsMintExchange(x) ==
  /\ x.verb = "POST"
  /\ ~Truthy(x.req.sid)
  /\ ~x.req.batch
  /\ x.req.elems[1].method = "initialize"
  /\ x.resp.sidHdr # Undefined
  /\ x.resp.status \in {200, 202}

IsDeleteOk(x) == x.verb = "DELETE" /\ x.resp.status = 200

Min(a, b) == IF a < b THEN a ELSE b

\* A step that completes no exchange
Quiet == last' = NoExchange /\ UNCHANGED <<issued, terminated, mintCount>>

Complete(x) ==
  /\ last' = [x EXCEPT !.gone = terminated]
  /\ issued' = IF IsMintExchange(x) THEN issued \cup {x.resp.sidHdr}
               ELSE IF IsDeleteOk(x) THEN issued \ {x.req.sid}
               ELSE issued
  /\ terminated' = IF IsDeleteOk(x) THEN terminated \cup {x.req.sid}
                   ELSE terminated
  /\ mintCount' = IF IsMintExchange(x)
                  THEN [mintCount EXCEPT
                          ![x.resp.sidHdr] = Min(@ + 1, MaxMintCount)]
                  ELSE mintCount

(***************************************************************************)
(* app.post('/mcp')                                                         *)
(***************************************************************************)
\* The protocol version check, without the test that a marker was sent
versionRejected_NoPresenceTest(ver) == ~startsWith(ver, PREFIX_2025)

\* The protocol version check
versionRejected(ver) == VTruthy(ver) /\ ~startsWith(ver, PREFIX_2025)

\* Session resolution that creates a session for an initialize whatever the
\* session header is
resolveSession_NoHeaderTest(sid, method, live) ==
  IF Truthy(sid) /\ sid \in live THEN "existing"
  ELSE IF method = "initialize" THEN "create"
  ELSE IF Truthy(sid) THEN "not-found"
  ELSE "required"

\* Session resolution that takes every identifier sent for a known one
resolveSession_NoLookup(sid, method, live) ==
  IF Truthy(sid) THEN "existing"
  ELSE IF method = "initialize" THEN "create"
  ELSE "required"

\* Session resolution that creates a session whenever no identifier is sent
resolveSession_AnyMethod(sid, method, live) ==
  IF Truthy(sid) /\ sid \in live THEN "existing"
  ELSE IF ~Truthy(sid) THEN "create"
  ELSE "not-found"

\* Session resolution that creates a session for every initialize
resolveSession_InitializeMints(sid, method, live) ==
  IF method = "initialize" THEN "create"
  ELSE IF Truthy(sid) /\ sid \in live THEN "existing"
  ELSE IF Truthy(sid) THEN "not-found"
  ELSE "required"

\* Session resolution: which of the four branches is taken for header sid
\* and req.body.method, with the identifiers in live in the map
resolveSession(sid, method, live) ==
  IF Truthy(sid) /\ sid \in live THEN "existing"
  ELSE IF ~Truthy(sid) /\ method = "initialize" THEN "create"
  ELSE IF Truthy(sid) THEN "not-found"
  ELSE "required"

\* generateSessionId(): Math.random decides, and nothing compares the outcome
\* with the identifiers in use
generateSessionId == SessionIds

\* sessions.set(sessionId, { id, createdAt })
sessionsSet(map, id, t) == (id :> [id |-> id, createdAt |-> t]) @@ map
\* A delete that empties the map
sessionsDelete_All(map, id) == << >>
\* sessions.delete(sessionId)
sessionsDelete(map, id) == [i \in DOMAIN map \ {id} |-> map[i]]

\* A body whose method counts only when the request has an identifier
bodyMethod_IdentifiedOnly(req) ==
  IF req.batch \/ req.elems[1].id \in {IdUndefined, IdNull} THEN Undefined
  ELSE req.elems[1].method

\* A body whose method is the method of its first element
bodyMethod_FirstElement(req) ==
  IF req.elems = << >> THEN Undefined ELSE req.elems[1].method

\* req.body.id and req.body.method: an array has neither
bodyId(req) == IF req.batch THEN IdUndefined ELSE req.elems[1].id
bodyMethod(req) == IF req.batch THEN Undefined ELSE req.elems[1].method

(***************************************************************************)
(* The counters of the analytics object.  They are followed from an initial *)
(* state that holds them (InitCounted); elsewhere the record analytics      *)
(* keeps only which tables exist.                                           *)
(***************************************************************************)
MAX_RECENT_CALLS == 100
Counted(a) == "counters" \in DOMAIN a
Num(n) == [type |-> "number", n |-> n]
Str == [type |-> "string", n |-> 0]

\* table[key] = (table[key] || 0) + 1 on a table created as {}: for a key
\* the table inherits from Object.prototype, table[key] is a function (or,
\* for __proto__, an object) and + 1 makes a string of it; the assignment
\* to __proto__ of a string is ignored
bump(table, key) ==
  IF key \in DOMAIN table
  THEN [table EXCEPT ![key] = IF @.type = "number" THEN Num(@.n + 1) ELSE Str]
  ELSE IF key = "__proto__" THEN table
  ELSE IF key \in ObjectPrototype THEN (key :> Str) @@ table
  ELSE (key :> Num(1)) @@ table

zeroCounters ==
  [totalRequests |-> 0, requestsByMethod |-> << >>,
   requestsByEndpoint |-> << >>, totalToolCalls |-> 0, toolCalls |-> << >>,
   recentToolCalls |-> << >>]

\* trackRequest(req, endpoint), the counters of the claim
countRequest(a, method, endpoint) ==
  IF ~Counted(a) THEN a
  ELSE [a EXCEPT !.counters =
          [@ EXCEPT !.totalRequests = @ + 1,
                    !.requestsByMethod = bump(@, method),
                    !.requestsByEndpoint = bump(@, endpoint)]]

\* recentToolCalls.unshift(toolCall) and the pop that follows it
unshift(recent, toolCall) ==
  LET longer == <<toolCall>> \o recent
  IN  IF Len(longer) > MAX_RECENT_CALLS
      THEN SubSeq(longer, 1, Len(longer) - 1)
      ELSE longer

\* trackToolCall(toolName, req) at time t
countToolCall(a, toolName, t) ==
  IF ~Counted(a) THEN a
  ELSE [a EXCEPT !.counters =
          [@ EXCEPT !.totalToolCalls = @ + 1,
                    !.toolCalls = bump(@, toolName),
                    !.recentToolCalls =
                      unshift(@, [tool |-> toolName, timestamp |-> t])]]

\* A dispatcher that counts the tool calls of notifications too
reachesTrackToolCall_Unidentified(el) ==
  /\ el.isObject
  /\ el.method = "tools/call"
  /\ el.hasParams

\* processMcpRequest gets to trackToolCall for this element
reachesTrackToolCall(el) ==
  /\ el.isObject
  /\ el.id # IdUndefined /\ el.id # IdNull
  /\ el.method = "tools/call"
  /\ el.hasParams

\* The last element processMcpRequest is called for in the stretch of the
\* handler that starts at element i and ends in cfg: the one it waits for,
\* the one that broke the loop off, or the last one
stretchEnd(req, i, cfg) ==
  IF cfg.pc = "axios" THEN cfg.idx
  ELSE LET broken == {k \in i..Len(req.elems) : ~req.elems[k].isObject}
       IN  IF req.batch /\ broken # {}
           THEN CHOOSE k \in broken : \A j \in broken : k <= j
           ELSE Len(req.elems)

\* The analytics object after the calls of trackToolCall for the elements
\* i to j
RECURSIVE countStretch(_, _, _, _, _)
countStretch(a, req, i, j, t) ==
  IF ~Counted(a) \/ i > j THEN a
  ELSE countStretch(IF reachesTrackToolCall(req.elems[i])
                    THEN countToolCall(a, req.elems[i].tool, t)
                    ELSE a,
                    req, i + 1, j, t)

\* The socket of the request handled in slot s has been destroyed
socketDestroyed(s) == inflight[s] # Idle /\ inflight[s].destroyed

\* A handler that looks its session up again before it responds
Reach_RevalidatesSession(s, req, sessionId, before, up, cfg) ==
  IF cfg.pc = "done"
  THEN /\ Complete(Exchange("POST", req,
                            IF sessionId \in DOMAIN sessions THEN cfg.resp
                            ELSE Response(404, Undefined, "object",
                                   <<BareError(E_SESSION_NOT_FOUND,
                                               "Session not found")>>),
                            before, cfg.calls, up))
       /\ inflight' = [inflight EXCEPT ![s] = Idle]
  ELSE /\ inflight' = [inflight EXCEPT ![s] =
                         [pc |-> "axios", req |-> req,
                          sessionId |-> sessionId, idx |-> cfg.idx,
                          responses |-> cfg.responses, retryCount |-> 0,
                          calls |-> cfg.calls, before |-> before,
                          up |-> up, destroyed |-> socketDestroyed(s)]]
       /\ Quiet

\* The handler has reached configuration cfg in slot s: it has responded,
\* or it waits for axios
Reach(s, req, sessionId, before, up, cfg) ==
  IF cfg.pc = "done"
  THEN /\ IF socketDestroyed(s)
          THEN Quiet   \* res.json writes to a socket that is gone
          ELSE Complete(Exchange("POST", req, cfg.resp, before, cfg.calls,
                                 up))
       /\ inflight' = [inflight EXCEPT ![s] = Idle]
  ELSE /\ inflight' = [inflight EXCEPT ![s] =
                         [pc |-> "axios", req |-> req,
                          sessionId |-> sessionId, idx |-> cfg.idx,
                          responses |-> cfg.responses, retryCount |-> 0,
                          calls |-> cfg.calls, before |-> before,
                          up |-> up, destroyed |-> socketDestroyed(s)]]
       /\ Quiet

\* The upstream record after a stretch of the handler that ran with
\* requestApiKey = rk and took the number of calls from calls to cfg.calls:
\* the call it started was authorized with getApiKey()
Authorized(up, calls, cfg, rk) ==
  IF cfg.calls > calls
  THEN [up EXCEPT !.keys = Append(@, getApiKey(rk)),
                  !.idxs = Append(@, cfg.idx)]
  ELSE up

\* req.query.apiKey || req.headers['x-api-key']
userApiKey(req) == IF Truthy(req.key) THEN req.key ELSE req.xkey

\* A handler that leaves requestApiKey alone when the request has no token
setRequestApiKey_NoReset(req, current) ==
  IF Truthy(userApiKey(req)) THEN userApiKey(req) ELSE current

\* The value the handler gives requestApiKey: the token of the request, or
\* null (here Undefined) to fall back on the default
setRequestApiKey(req, current) ==
  IF Truthy(userApiKey(req)) THEN userApiKey(req) ELSE Undefined

\* An exception leaves a route handler.  Express answers for a handler
\* that throws with its error page (status 500, HTML); the rejected promise
\* of an async handler is passed to the same error handler by Express 5 and
\* is left unhandled by Express 4, which ends the Node process: the
\* connection is dropped and the memory of the server is gone
Escapes(verb, req, async) ==
  \/ /\ Complete(Exchange(verb, req, Response(500, Undefined, "html", << >>),
                          sessions, 0, NoUpstream(requestApiKey)))
     /\ UNCHANGED <<sessions, requestApiKey, inflight, analytics>>
  \/ /\ async
     /\ Complete(Exchange(verb, req, Response(0, Undefined, "dropped", << >>),
                          sessions, 0, NoUpstream(requestApiKey)))
     /\ sessions' = << >>
     /\ requestApiKey' = Undefined
     /\ inflight' = [t \in Slots |-> Idle]
     /\ UNCHANGED analytics

Post(s, req) ==
  /\ inflight[s] = Idle
  /\ IF trackRequest = "throw"
     THEN Escapes("POST", req, TRUE)
     ELSE
      LET rk == setRequestApiKey(req, requestApiKey)
          branch == resolveSession(req.sid, bodyMethod(req), DOMAIN sessions)
          up0 == NoUpstream(requestApiKey)
          run(id) == RunFrom(req, id, 1, << >>, 0, rk)
          counted == countRequest(analytics, "POST", "/mcp")
          dispatch(id) ==
            analytics' = countStretch(counted, req, 1,
                                      stretchEnd(req, 1, run(id)), now)
          reject(status, env) ==
            /\ Complete(Exchange("POST", req,
                                 Response(status, Undefined, "object", <<env>>),
                                 sessions, 0, up0))
            /\ analytics' = counted
            /\ UNCHANGED <<sessions, inflight>>
      IN  /\ requestApiKey' = rk
          /\ IF versionRejected(req.ver)
             THEN reject(400, Error(bodyId(req), E_VERSION,
                                    "Unsupported protocol version"))
             ELSE CASE branch = "existing" ->
                         /\ sessions' = sessions
                         /\ dispatch(req.sid)
                         /\ Reach(s, req, req.sid, sessions,
                                  Authorized(up0, 0, run(req.sid), rk),
                                  run(req.sid))
                    [] branch = "create" ->
                         \E id \in generateSessionId :
                           /\ sessions' = sessionsSet(sessions, id, now)
                           /\ dispatch(id)
                           /\ Reach(s, req, id, sessions,
                                    Authorized(up0, 0, run(id), rk), run(id))
                    [] branch = "not-found" ->
                         reject(404, BareError(E_SESSION_NOT_FOUND,
                                               "Session not found"))
                    [] OTHER ->
                         reject(400, BareError(E_SESSION_REQUIRED,
                                               "Session ID required"))
  /\ UNCHANGED <<DEFAULT_API_KEY, now>>

(***************************************************************************)
(* makeApiCall after the axios call has settled, and after the backoff      *)
(* timer has fired.                                                         *)
(***************************************************************************)
MaxRetries == 3

\* The backoff before the retry that follows retryCount earlier ones, in ms
RECURSIVE Pow2(_)
Pow2(n) == IF n = 0 THEN 1 ELSE 2 * Pow2(n - 1)
\* A backoff that does not grow
delay_Constant(retryCount) == 1000
delay(retryCount) == Pow2(retryCount) * 1000

\* A catch block that retries after every failure
classify_RetryAll(status, retryCount) ==
  IF retryCount < MaxRetries THEN "retry" ELSE "API Error"

\* The catch block of makeApiCall for an answer other than success:
\* "retry" or the text of the error thrown
classify(status, retryCount) ==
  CASE status = 400 -> "Bad Request (400)"
    [] status = 401 -> "Authentication failed (401)"
    [] status = 429 ->
         IF retryCount < MaxRetries THEN "retry"
         ELSE "Rate limit exceeded (429)"
    [] OTHER -> "API Error"

\* error.response?.data?.message || error.response?.data || error.message
errorMessage(status, data) ==
  IF status = NetworkFault
  THEN [type |-> "string", src |-> "error.message", words |-> {}]
  ELSE CASE data.form = "message" ->
              [type |-> "string", src |-> "data.message", words |-> data.words]
         [] data.form = "string" ->
              [type |-> "string", src |-> "data", words |-> data.words]
         [] data.form = "object" ->
              [type |-> "object", src |-> "data", words |-> {}]
         [] OTHER ->
              [type |-> "string", src |-> "error.message", words |-> {}]

\* Guidance that looks for the rate limit first
guidance_RateFirst(words) ==
  IF "limit" \in words \/ "rate" \in words THEN "rate"
  ELSE IF "credit" \in words THEN "credits"
  ELSE IF "subscription" \in words \/ "plan" \in words THEN "plan"
  ELSE "none"

\* The sentence added to the text of a 400 error
guidance(words) ==
  IF "credit" \in words THEN "credits"
  ELSE IF "subscription" \in words \/ "plan" \in words THEN "plan"
  ELSE IF "limit" \in words \/ "rate" \in words THEN "rate"
  ELSE "none"

\* statusCode || 'unknown' in the text of the generic error
statusText(status) ==
  IF status = NetworkFault THEN "unknown" ELSE ToString(status)

\* The error that leaves the catch block of makeApiCall.  The 400 branch
\* calls errorMessage.includes: a TypeError when errorMessage is no string
thrown(status, retryCount, data) ==
  LET verdict == classify(status, retryCount)
      em == errorMessage(status, data)
  IN  CASE verdict = "Bad Request (400)" ->
             IF em.type = "string"
             THEN [msg |-> verdict,
                   detail |-> [status |-> "400", upstream |-> em.src,
                               words |-> em.words,
                               guidance |-> guidance(em.words)]]
             ELSE [msg |-> "TypeError", detail |-> NoDetail]
        [] verdict = "API Error" ->
             [msg |-> verdict,
              detail |-> [status |-> statusText(status),
                          upstream |-> IF em.type = "string" THEN em.src
                                       ELSE "[object Object]",
                          words |-> em.words, guidance |-> "none"]]
        [] OTHER -> [msg |-> verdict, detail |-> NoDetail]

\* The upstream call of slot s has settled with this status and body
AxiosSettles(s, status, data) ==
  /\ inflight[s].pc = "axios"
  /\ LET f == inflight[s]
         el == f.req.elems[f.idx]
         err == thrown(status, f.retryCount, data)
         o == IF status = 200 THEN Return(ToolSucceeded(el))
              ELSE Return([ToolFailed(el, err.msg)
                             EXCEPT !.detail = err.detail])
         up == [f.up EXCEPT !.replies = Append(@, status)]
         ended == [up EXCEPT !.data = data]
         cfg == Settle(f.req, f.sessionId, f.idx, f.responses, f.calls, o,
                       requestApiKey)
     IN  IF status # 200 /\ err.msg = "retry"
         THEN /\ inflight' =
                   [inflight EXCEPT
                      ![s].pc = "timer",
                      ![s].up = [up EXCEPT
                                   !.delays = Append(@, delay(f.retryCount))]]
              /\ Quiet
              /\ UNCHANGED analytics
         ELSE /\ Reach(s, f.req, f.sessionId, f.before,
                       Authorized(ended, f.calls, cfg, requestApiKey), cfg)
              /\ analytics' =
                   countStretch(analytics, f.req, f.idx + 1,
                                stretchEnd(f.req, f.idx + 1, cfg), now)
  /\ UNCHANGED <<sessions, requestApiKey, DEFAULT_API_KEY, now>>

\* The same with an error body whose message holds none of the keywords
AxiosReturns(s, status) == AxiosSettles(s, status, PlainPayload)

TimerFires(s) ==
  /\ inflight[s].pc = "timer"
  /\ LET f == inflight[s]
         el == f.req.elems[f.idx]
         o == makeApiCallStart(el, requestApiKey)
         cfg == Settle(f.req, f.sessionId, f.idx, f.responses, f.calls, o,
                       requestApiKey)
     IN  IF o.kind = "await"
         THEN /\ inflight' =
                   [inflight EXCEPT
                      ![s].pc = "axios",
                      ![s].retryCount = f.retryCount + 1,
                      ![s].calls = f.calls + 1,
                      ![s].up =
                        [f.up EXCEPT
                           !.keys = Append(@, getApiKey(requestApiKey)),
                           !.idxs = Append(@, f.idx)]]
              /\ Quiet
              /\ UNCHANGED analytics
         ELSE /\ Reach(s, f.req, f.sessionId, f.before,
                       Authorized(f.up, f.calls, cfg, requestApiKey), cfg)
              /\ analytics' =
                   countStretch(analytics, f.req, f.idx + 1,
                                stretchEnd(f.req, f.idx + 1, cfg), now)
  /\ UNCHANGED <<sessions, requestApiKey, DEFAULT_API_KEY, now>>

\* req.setTimeout(30000) and res.setTimeout(30000) without a listener for
\* 'timeout': when nothing has been read from or written to the socket for
\* 30 s, which a slow upstream call brings about (axios is called without
\* timeout), Node destroys the socket.  The client finds its connection
\* closed without a response; the handler goes on
SocketTimeout(s) ==
  /\ inflight[s] # Idle
  /\ ~inflight[s].destroyed
  /\ LET f == inflight[s]
     IN  Complete(Exchange("POST", f.req,
                           Response(0, Undefined, "dropped", << >>),
                           f.before, f.calls, f.up))
  /\ inflight' = [inflight EXCEPT ![s].destroyed = TRUE]
  /\ UNCHANGED <<sessions, requestApiKey, DEFAULT_API_KEY, analytics, now>>

(***************************************************************************)
(* app.delete('/mcp'), app.get('/mcp'), app.options('/mcp')                 *)
(***************************************************************************)
HeaderOnly(sid) == Request(sid, VUndefined, Undefined, FALSE, << >>)

Delete(sid) ==
  /\ IF trackRequest = "throw"
     THEN Escapes("DELETE", HeaderOnly(sid), FALSE)
     ELSE
       /\ IF ~Truthy(sid)
          THEN /\ Complete(Exchange("DELETE", HeaderOnly(sid),
                             Response(400, Undefined, "object",
                               <<BareError(E_SESSION_REQUIRED,
                                           "Session ID required")>>),
                             sessions, 0, NoUpstream(requestApiKey)))
               /\ sessions' = sessions
          ELSE IF sid \in DOMAIN sessions
          THEN /\ Complete(Exchange("DELETE", HeaderOnly(sid),
                             Response(200, Undefined, "status", << >>),
                             sessions, 0, NoUpstream(requestApiKey)))
               /\ sessions' = sessionsDelete(sessions, sid)
          ELSE /\ Complete(Exchange("DELETE", HeaderOnly(sid),
                             Response(404, Undefined, "object",
                               <<BareError(E_SESSION_NOT_FOUND,
                                           "Session not found")>>),
                             sessions, 0, NoUpstream(requestApiKey)))
               /\ sessions' = sessions
       /\ analytics' = countRequest(analytics, "DELETE", "/mcp")
       /\ UNCHANGED <<requestApiKey, inflight>>
  /\ UNCHANGED <<DEFAULT_API_KEY, now>>

\* A GET handler that empties the session map
Get_ForgetsSessions ==
  /\ Complete(Exchange("GET", HeaderOnly(Undefined),
                       Response(200, Undefined, "status", << >>),
                       sessions, 0, NoUpstream(requestApiKey)))
  /\ sessions' = << >>
  /\ UNCHANGED <<requestApiKey, DEFAULT_API_KEY, analytics, now, inflight>>

Get ==
  /\ IF trackRequest = "throw"
     THEN Escapes("GET", HeaderOnly(Undefined), FALSE)
     ELSE /\ Complete(Exchange("GET", HeaderOnly(Undefined),
                               Response(200, Undefined, "status", << >>),
                               sessions, 0, NoUpstream(requestApiKey)))
          /\ analytics' = countRequest(analytics, "GET", "/mcp")
          /\ UNCHANGED <<sessions, requestApiKey, inflight>>
  /\ UNCHANGED <<DEFAULT_API_KEY, now>>

\* app.get('/health')
Health ==
  /\ IF trackRequest = "throw"
     THEN Escapes("GET /health", HeaderOnly(Undefined), FALSE)
     ELSE /\ Complete(Exchange("GET /health", HeaderOnly(Undefined),
                               Response(200, Undefined, "status", << >>),
                               sessions, 0, NoUpstream(requestApiKey)))
          /\ analytics' = countRequest(analytics, "GET", "/health")
          /\ UNCHANGED <<sessions, requestApiKey, inflight>>
  /\ UNCHANGED <<DEFAULT_API_KEY, now>>

Options ==
  /\ Complete(Exchange("OPTIONS", HeaderOnly(Undefined),
                       Response(200, Undefined, "none", << >>),
                       sessions, 0, NoUpstream(requestApiKey)))
  /\ UNCHANGED <<sessions, requestApiKey, DEFAULT_API_KEY, analytics, now,
                 inflight>>

\* Time passes
Tick ==
  /\ now < MaxTime
  /\ now' = now + 1
  /\ Quiet
  /\ UNCHANGED <<sessions, requestApiKey, DEFAULT_API_KEY, analytics, inflight>>

(***************************************************************************)
(* The requests a client sends.                                             *)
(***************************************************************************)
PlainShape(m) ==
  [method |-> m, hasParams |-> FALSE, tool |-> Undefined, hasArgs |-> FALSE]
ToolShape(m, t, a) ==
  [method |-> m, hasParams |-> TRUE, tool |-> t, hasArgs |-> a]
Elements(ids, shapes) ==
  {Element(i, sh.method, sh.hasParams, sh.tool, sh.hasArgs) :
     i \in ids, sh \in shapes}
Singles(elements) == {<<e>> : e \in elements}
Requests(sids, vers, keys, singles, batches) ==
  {Request(sid, ver, key, FALSE, b) :
     sid \in sids, ver \in vers, key \in keys, b \in singles}
  \cup
  {Request(sid, ver, key, TRUE, b) :
     sid \in sids, ver \in vers, key \in keys, b \in batches}

SidHeaders == {Undefined, ""} \cup SessionIds
VersionHeaders == {VUndefined, V_empty, V_2025_06_18, V_2024_11_05}

NoneInflight == \A s \in Slots : inflight[s] = Idle

\* The client has the response of its previous request
Receive ==
  /\ last # NoExchange
  /\ last' = NoExchange
  /\ UNCHANGED <<sessions, requestApiKey, DEFAULT_API_KEY, analytics, now,
                 inflight,
                 issued, terminated, mintCount>>

\* A client that sends one request at a time is ready for the next
Ready == NoneInflight /\ last = NoExchange

\* Every header, single requests of every kind and a few batches
Ids == {IdUndefined, IdNull, 0, 1}
Shapes ==
  {PlainShape("initialize"), PlainShape("tools/list"), PlainShape("ping"),
   PlainShape("tools/call"), PlainShape("invoke"),
   ToolShape("tools/call", "get_credits", TRUE),
   ToolShape("tools/call", "get_credit_balance", TRUE),
   ToolShape("tools/call", "toString", TRUE),
   ToolShape("invoke", "get_credits", TRUE),
   ToolShape("invoke", "get_keyword_data", FALSE),
   ToolShape("invoke", "get_credit_balance", TRUE)}
SomeBatches ==
  {<< >>,
   <<Element(0, "initialize", FALSE, Undefined, FALSE)>>,
   <<Element(IdUndefined, "tools/list", FALSE, Undefined, FALSE)>>,
   <<Element(0, "tools/list", FALSE, Undefined, FALSE),
     Element(1, "tools/call", TRUE, "get_credits", TRUE)>>,
   <<Element(0, "initialize", FALSE, Undefined, FALSE), JsonNull>>,
   <<Element(0, "tools/list", FALSE, Undefined, FALSE),
     Element(1, "ping", FALSE, Undefined, FALSE)>>}
SpecRequests ==
  Requests(SidHeaders, VersionHeaders, {Undefined},
           Singles(Elements(Ids, Shapes)), SomeBatches)

Next ==
  \/ Ready /\ \E req \in SpecRequests : Post(1, req)
  \/ \E s \in Slots, status \in UpstreamStatuses : AxiosReturns(s, status)
  \/ \E s \in Slots : TimerFires(s)
  \/ Ready /\ \E sid \in SidHeaders : Delete(sid)
  \/ Ready /\ Get
  \/ Ready /\ Options
  \/ Receive
  \/ Ready /\ Tick

Spec == Init /\ [][Next]_vars

\* Batches: every array of up to MaxBatch elements of a few kinds, sent with
\* a session identifier or without, next to the initialize that obtains one
BatchElements ==
  {Element(IdUndefined, "tools/list", FALSE, Undefined, FALSE),
   Element(IdNull, "invoke", TRUE, "get_credits", TRUE),
   Element(0, "tools/list", FALSE, Undefined, FALSE),
   Element(0, "tools/call", FALSE, Undefined, FALSE),
   Element(1, "tools/call", TRUE, "get_credits", TRUE),
   JsonNull}
Batches == UNION {[1..n -> BatchElements] : n \in 0..MaxBatch}
BatchRequests ==
  Requests({Undefined} \cup SessionIds, {VUndefined}, {Undefined},
           Singles({Element(0, "initialize", FALSE, Undefined, FALSE)}),
           Batches)
BatchStatuses == {200, 401, 429}

NextBatch ==
  \/ Ready /\ \E req \in BatchRequests : Post(1, req)
  \/ \E s \in Slots, status \in BatchStatuses : AxiosReturns(s, status)
  \/ \E s \in Slots : TimerFires(s)
  \/ Receive

SpecBatch == Init /\ [][NextBatch]_vars

(***************************************************************************)
(* Requests with credentials: an initialize, a tool call and a batch of two *)
(* tool calls, with and without the apiKey query parameter and the          *)
(* X-API-Key header; first from a client that sends one request at a time,  *)
(* then from clients whose requests overlap.                                *)
(***************************************************************************)
GetCredits(id) == Element(id, "tools/call", TRUE, "get_credits", TRUE)
KeyBodies(bodies) ==
  {[batch |-> Len(b) > 1, elems |-> b] : b \in bodies}
KeyRequests(sids, keys, xkeys, bodies) ==
  {RequestX(sid, VUndefined, key, xkey, b.batch, b.elems) :
     sid \in sids, key \in keys, xkey \in xkeys, b \in KeyBodies(bodies)}
RetryStatuses == {200, 429}

SequentialRequests ==
  KeyRequests({Undefined} \cup SessionIds, {Undefined, "", "key_q"},
              {Undefined, "key_x"},
              {<<Element(0, "initialize", FALSE, Undefined, FALSE)>>,
               <<GetCredits(1)>>, <<GetCredits(0), GetCredits(1)>>})

NextKeys ==
  \/ Ready /\ \E req \in SequentialRequests : Post(1, req)
  \/ \E s \in Slots, status \in RetryStatuses : AxiosReturns(s, status)
  \/ \E s \in Slots : TimerFires(s)
  \/ Receive

SpecKeys == Init /\ [][NextKeys]_vars

ConcurrentRequests ==
  KeyRequests({Undefined} \cup SessionIds, {Undefined, "key_q"}, {Undefined},
              {<<Element(0, "initialize", FALSE, Undefined, FALSE)>>,
               <<GetCredits(0), GetCredits(1)>>})

\* A server that takes no request while another one is being handled
FirstIdle_OneAtATime(s) == s = 1 /\ NoneInflight

\* A request is taken by the first handler slot that is free
FirstIdle(s) ==
  inflight[s] = Idle /\ \A t \in Slots : t < s => inflight[t] # Idle

\* The upstream of the overlapping clients rate-limits first attempts only
FirstAttemptLimited(s, status) ==
  status = 429 => inflight[s].pc = "axios" /\ inflight[s].retryCount = 0

NextConcurrent ==
  \/ /\ last = NoExchange
     /\ \E s \in Slots, req \in ConcurrentRequests :
          FirstIdle(s) /\ Post(s, req)
  \/ \E s \in Slots, status \in RetryStatuses :
       FirstAttemptLimited(s, status) /\ AxiosReturns(s, status)
  \/ \E s \in Slots : TimerFires(s)
  \/ Receive

SpecConcurrent == Init /\ [][NextConcurrent]_vars

(***************************************************************************)
(* Requests against an upstream that may fail in every way, under the       *)
(* scheduling of Node: an upstream call that has been made returns, and a   *)
(* timer that has been set fires.                                           *)
(***************************************************************************)
LiveRequests ==
  KeyRequests({Undefined} \cup SessionIds, {Undefined}, {Undefined},
              {<<Element(0, "initialize", FALSE, Undefined, FALSE)>>,
               <<GetCredits(1)>>,
               <<Element(1, "invoke", TRUE, "get_credits", TRUE)>>,
               <<Element(IdUndefined, "tools/list", FALSE, Undefined, FALSE)>>,
               <<Element(IdUndefined, "tools/list", FALSE, Undefined, FALSE),
                 Element(IdUndefined, "ping", FALSE, Undefined, FALSE)>>,
               <<GetCredits(0), GetCredits(1)>>})

UpstreamReturns == \E s \in Slots, status \in UpstreamStatuses :
                     AxiosReturns(s, status)
BackoffEnds == \E s \in Slots : TimerFires(s)

NextLive ==
  \/ Ready /\ \E req \in LiveRequests : Post(1, req)
  \/ UpstreamReturns
  \/ BackoffEnds
  \/ Receive

SpecLive ==
  Init /\ [][NextLive]_vars /\ WF_vars(UpstreamReturns) /\ WF_vars(BackoffEnds)

(***************************************************************************)
(* What a response says                                                     *)
(***************************************************************************)
IsPost == last.verb = "POST"
IsObject(resp) == resp.bodyKind = "object" /\ Len(resp.body) = 1
HasErrorCode(resp, code) ==
  IsObject(resp) /\ resp.body[1].kind = "error" /\ resp.body[1].code = code
SessionNotFound(resp) ==
  resp.status = 404 /\ HasErrorCode(resp, E_SESSION_NOT_FOUND)
SessionRequired(resp) ==
  resp.status = 400 /\ HasErrorCode(resp, E_SESSION_REQUIRED)
UnsupportedVersion(resp) ==
  resp.status = 400 /\ HasErrorCode(resp, E_VERSION)
\* The protocol-version marker is absent (an empty header value is no
\* marker) or of the accepted family
NoMarker(ver) == ver = VUndefined \/ ver = V_empty
AcceptedVersion(ver) == NoMarker(ver) \/ startsWith(ver, PREFIX_2025)
\* The request carries a session identifier (an empty header value is none)
CarriesSession(req) == req.sid # Undefined /\ req.sid # ""
IsNotification(el) == el.id = IdUndefined \/ el.id = IdNull

(***************************************************************************)
(* C1: once an initialize sent without a session identifier has returned    *)
(* S, every later POST that presents S with an absent or accepted protocol  *)
(* version passes session resolution as long as no DELETE for S has         *)
(* succeeded, and after a DELETE for S has succeeded every later POST that  *)
(* presents S is answered with session-not-found.                           *)
(***************************************************************************)
C1_SessionLifetime ==
  (IsPost /\ AcceptedVersion(last.req.ver)) =>
     /\ last.req.sid \in issued =>
          ~SessionNotFound(last.resp) /\ ~SessionRequired(last.resp)
     /\ last.req.sid \in terminated => SessionNotFound(last.resp)

(***************************************************************************)
(* C2: a session identifier is in the session map if and only if a          *)
(* successful initialize sent without a session identifier has returned it  *)
(* and no DELETE for it has succeeded since; nothing else adds or removes   *)
(* a session.                                                               *)
(***************************************************************************)
C2_SessionsAreTheIssuedOnes == DOMAIN sessions = issued

\* Witness of C2: a DELETE has just removed one of two issued sessions
C2_Witness ==
  /\ last.verb = "DELETE"
  /\ last.resp.status = 200
  /\ issued # {}
  /\ last.req.sid \notin DOMAIN sessions

(***************************************************************************)
(* C3: every initialize sent without a session identifier receives an       *)
(* identifier that was never handed out before and that is not the          *)
(* identifier of a live session, so minting never overwrites an entry of    *)
(* the session map.                                                         *)
(***************************************************************************)
C3_FreshIdentifier ==
  /\ \A i \in SessionIds : mintCount[i] <= 1
  /\ IsMintExchange(last) => last.resp.sidHdr \notin DOMAIN last.before

(***************************************************************************)
(* C4 as claimed: every POST that carries a session identifier not in the   *)
(* session map is answered with session-not-found, whatever its method,     *)
(* leaves the session map unchanged and makes no upstream call.             *)
(***************************************************************************)
UnknownSessionHandled ==
  /\ SessionNotFound(last.resp)
  /\ sessions = last.before
  /\ last.calls = 0

C4_Original ==
  (IsPost /\ CarriesSession(last.req)
          /\ last.req.sid \notin DOMAIN last.before)
     => UnknownSessionHandled

(***************************************************************************)
(* C4 as amended: every POST that passes the protocol-version check and     *)
(* carries a non-empty session identifier not in the session map is         *)
(* answered with session-not-found, whatever its method, leaves the session *)
(* map unchanged and makes no upstream call.                                *)
(***************************************************************************)
C4_UnknownSession ==
  (IsPost /\ CarriesSession(last.req)
          /\ last.req.sid \notin DOMAIN last.before
          /\ AcceptedVersion(last.req.ver))
     => UnknownSessionHandled

\* Witness of C4: an initialize with an unknown identifier is turned away
C4_Witness ==
  /\ IsPost /\ CarriesSession(last.req)
  /\ last.req.sid \notin DOMAIN last.before
  /\ AcceptedVersion(last.req.ver)
  /\ ~last.req.batch /\ last.req.elems[1].method = "initialize"
  /\ last.before # << >>
  /\ SessionNotFound(last.resp)

(***************************************************************************)
(* C5 as claimed: every POST that carries no session identifier and whose   *)
(* method is not initialize is answered with session-required, leaves the   *)
(* session map unchanged and dispatches nothing.                            *)
(***************************************************************************)
MissingSessionHandled ==
  /\ SessionRequired(last.resp)
  /\ sessions = last.before
  /\ last.calls = 0

C5_Original ==
  (IsPost /\ ~CarriesSession(last.req)
          /\ bodyMethod(last.req) # "initialize")
     => MissingSessionHandled

(***************************************************************************)
(* C5 as amended: every POST that passes the protocol-version check,        *)
(* carries no session identifier and whose method is not initialize is      *)
(* answered with session-required, leaves the session map unchanged and     *)
(* dispatches nothing.                                                      *)
(***************************************************************************)
C5_MissingSession ==
  (IsPost /\ ~CarriesSession(last.req)
          /\ bodyMethod(last.req) # "initialize"
          /\ AcceptedVersion(last.req.ver))
     => MissingSessionHandled

\* Witness of C5: a tools/call without session header is turned away
C5_Witness ==
  /\ IsPost /\ last.req.sid = Undefined
  /\ ~last.req.batch
  /\ last.req.elems[1].method = "tools/call"
  /\ last.req.elems[1].tool = "get_credits"
  /\ last.req.elems[1].id = 0
  /\ AcceptedVersion(last.req.ver)
  /\ SessionRequired(last.resp)

(***************************************************************************)
(* C6 as claimed: the protocol-version check comes first: a POST whose      *)
(* marker is present (the header is sent, with whatever value) and does not *)
(* start with "2025-" is answered with the unsupported-protocol-version     *)
(* error (-32600) regardless of session header and method and creates no    *)
(* session; a POST without the header is never rejected by this check.      *)
(***************************************************************************)
VersionRejectedFirst ==
  /\ UnsupportedVersion(last.resp)
  /\ sessions = last.before
  /\ last.resp.sidHdr = Undefined
  /\ last.calls = 0

C6_Original ==
  IsPost =>
    /\ (last.req.ver # VUndefined /\ ~startsWith(last.req.ver, PREFIX_2025))
         => VersionRejectedFirst
    /\ last.req.ver = VUndefined => ~HasErrorCode(last.resp, E_VERSION)

(***************************************************************************)
(* C6 as amended: the protocol-version check comes first: a POST whose      *)
(* marker is present with a non-empty value that does not start with        *)
(* "2025-" is answered with the unsupported-protocol-version error (-32600) *)
(* regardless of session header and method and creates no session; a POST   *)
(* whose marker is absent or empty is never rejected by this check.         *)
(***************************************************************************)
C6_VersionCheckFirst ==
  IsPost =>
    /\ (~NoMarker(last.req.ver) /\ ~startsWith(last.req.ver, PREFIX_2025))
         => VersionRejectedFirst
    /\ NoMarker(last.req.ver) => ~HasErrorCode(last.resp, E_VERSION)

\* Witness of C6: an initialize without session identifier is rejected for
\* its version and mints nothing
C6_Witness ==
  /\ IsPost /\ last.req.ver = V_2024_11_05
  /\ last.req.sid = Undefined
  /\ ~last.req.batch /\ last.req.elems[1].method = "initialize"
  /\ UnsupportedVersion(last.resp)
  /\ sessions = last.before

(***************************************************************************)
(* C7: a request without identifier (a notification) never produces a       *)
(* response body, for every method, session header and protocol version,    *)
(* sent singly or inside a batch.                                           *)
(***************************************************************************)
Identified(elems) == {k \in 1..Len(elems) : ~IsNotification(elems[k])}

C7_NotificationsSilent ==
  IsPost =>
    /\ (~last.req.batch /\ IsNotification(last.req.elems[1]))
         => last.resp.bodyKind = "none"
    /\ Len(last.resp.body) <= Cardinality(Identified(last.req.elems))

(***************************************************************************)
(* C8: every request that carries an identifier (0 included) produces       *)
(* exactly one response envelope, with exactly one of result and error and  *)
(* with the identifier echoed unchanged, on every path: version errors,     *)
(* session errors, tool-not-found, method-not-supported, internal errors.   *)
(***************************************************************************)
RECURSIVE IdsOf(_)
IdsOf(seq) ==
  IF seq = << >> THEN << >> ELSE <<seq[1].id>> \o IdsOf(Tail(seq))
RECURSIVE IdentifiedIds(_)
IdentifiedIds(elems) ==
  IF elems = << >> THEN << >>
  ELSE (IF IsNotification(elems[1]) THEN << >> ELSE <<elems[1].id>>)
       \o IdentifiedIds(Tail(elems))
WellFormed(env) == env.jsonrpc /\ env.kind \in {"result", "error"}

C8_OneEnvelopePerRequest ==
  IsPost =>
    /\ IdsOf(last.resp.body) = IdentifiedIds(last.req.elems)
    /\ \A k \in 1..Len(last.resp.body) : WellFormed(last.resp.body[k])

(***************************************************************************)
(* C10: a failure raised while a registered tool executes (an upstream 400, *)
(* 401, exhausted 429 or other status, a network fault, a missing           *)
(* credential), through tools/call or through invoke, is reported as a      *)
(* result that carries the error text and isError: true, never as a         *)
(* JSON-RPC error object.                                                   *)
(***************************************************************************)
\* The last exchange is a single identified call of a registered tool that
\* got past the version and session checks and whose execution failed
ToolExecutionFailed(methods) ==
  /\ IsPost /\ ~last.req.batch
  /\ AcceptedVersion(last.req.ver)
  /\ last.req.sid \in DOMAIN last.before
  /\ ~IsNotification(last.req.elems[1])
  /\ last.req.elems[1].method \in methods
  /\ last.req.elems[1].hasParams
  /\ last.req.elems[1].tool \in TOOLS
  /\ \/ last.replies = << >>
     \/ last.replies[Len(last.replies)] # 200

FailureIsData ==
  /\ IsObject(last.resp)
  /\ last.resp.body[1].kind = "result"
  /\ last.resp.body[1].isError = "true"
  /\ last.resp.body[1].msg # ""

C10_ToolFailuresAreData ==
  ToolExecutionFailed({"tools/call", "invoke"}) => FailureIsData

(***************************************************************************)
(* C9: for a batch POST that passes the version and session checks, the     *)
(* response array has exactly one entry for each element that carries an    *)
(* identifier and none for a notification, in the order of the requests.    *)
(***************************************************************************)
IdentifiedElements(elems) == SelectSeq(elems, LAMBDA e : ~IsNotification(e))

\* env is an answer to the request el
Answers(env, el) ==
  /\ env.id = el.id
  /\ WellFormed(env)
  /\ (env.msg = "tools/list") = (el.method = "tools/list")

PassedBatch ==
  /\ IsPost /\ last.req.batch
  /\ AcceptedVersion(last.req.ver)
  /\ last.req.sid \in DOMAIN last.before

C9_BatchOrder ==
  PassedBatch =>
    LET asked == IdentifiedElements(last.req.elems)
    IN  /\ last.resp.bodyKind = "array"
        /\ Len(last.resp.body) = Len(asked)
        /\ \A k \in 1..Len(asked) : Answers(last.resp.body[k], asked[k])

\* Witness of C9: a batch of three whose second element is a notification
\* is answered with two entries, for the first and the third element
C9_Witness ==
  /\ PassedBatch
  /\ Len(last.req.elems) = 3
  /\ ~IsNotification(last.req.elems[1])
  /\ IsNotification(last.req.elems[2])
  /\ ~IsNotification(last.req.elems[3])
  /\ last.req.elems[1].id # last.req.elems[3].id
  /\ IdsOf(last.resp.body) = <<last.req.elems[1].id, last.req.elems[3].id>>

(***************************************************************************)
(* C11: a tools/call or invoke whose tool name is not one of the registered *)
(* tool names is answered with the tool-not-found JSON-RPC error (-32601),  *)
(* never with an internal error or a success result, and no upstream call   *)
(* is made.                                                                 *)
(***************************************************************************)
\* The last exchange is a single identified tools/call or invoke that got
\* past the version and session checks and names a tool out of names
ToolCalled(methods, names) ==
  /\ IsPost /\ ~last.req.batch
  /\ AcceptedVersion(last.req.ver)
  /\ last.req.sid \in DOMAIN last.before
  /\ ~IsNotification(last.req.elems[1])
  /\ last.req.elems[1].method \in methods
  /\ last.req.elems[1].hasParams
  /\ last.req.elems[1].tool \in names

UnregisteredNames == {"get_credit_balance"} \cup ObjectPrototype

C11_UnregisteredToolNotFound ==
  ToolCalled({"tools/call", "invoke"}, UnregisteredNames)
    => /\ last.resp.status = 200
       /\ HasErrorCode(last.resp, E_NOT_FOUND)
       /\ last.calls = 0

(***************************************************************************)
(* C12: for one tool invocation makeApiCall retries only after a 429        *)
(* answer, at most 3 times, waiting 1000, 2000 and 4000 ms before the 1st,  *)
(* 2nd and 3rd retry: the answers [429, 429, 200] end in success after      *)
(* exactly 2 retries and 3000 ms of backoff, and four 429 in a row end in   *)
(* the rate-limit error after exactly 3 retries, 4 upstream calls in all    *)
(* and never a 5th.                                                         *)
(***************************************************************************)
RECURSIVE Sum(_)
Sum(seq) == IF seq = << >> THEN 0 ELSE seq[1] + Sum(Tail(seq))
Retries == Len(last.delays)
Answer == last.resp.body[1]
\* The single tool call of the last exchange has ended in success
ToolCallSucceeded ==
  /\ IsObject(last.resp) /\ Answer.kind = "result"
  /\ Answer.isError # "true" /\ Answer.msg = "formatted"
\* The single tool call of the last exchange has failed with text msg
ToolCallFailedWith(msg) ==
  /\ IsObject(last.resp) /\ Answer.msg = msg
  /\ \/ Answer.kind = "error"
     \/ Answer.kind = "result" /\ Answer.isError = "true"

C12_RetryOn429Only ==
  ToolCalled({"tools/call", "invoke"}, TOOLS) =>
    /\ last.calls = Len(last.replies)
    /\ last.calls <= 4
    /\ last.calls > 0 => Retries = last.calls - 1
    /\ \A k \in 1..Retries : last.replies[k] = 429
    /\ \A k \in 1..Retries :
         last.delays[k] = (IF k = 1 THEN 1000 ELSE IF k = 2 THEN 2000
                           ELSE 4000)
    /\ last.replies = <<429, 429, 200>>
         => ToolCallSucceeded /\ Retries = 2 /\ Sum(last.delays) = 3000
    /\ last.replies = <<429, 429, 429, 429>>
         => ToolCallFailedWith("Rate limit exceeded (429)") /\ Retries = 3

\* Witness of C12: four 429 answers in a row have ended a tool call
C12_Witness ==
  /\ ToolCalled({"tools/call"}, TOOLS)
  /\ last.replies = <<429, 429, 429, 429>>
  /\ last.delays = <<1000, 2000, 4000>>
  /\ last.calls = 4
  /\ ToolCallFailedWith("Rate limit exceeded (429)")

(***************************************************************************)
(* C13: a tool invocation makes exactly one upstream call unless that call  *)
(* is answered with 429: a failure other than 429 (400, 401, another        *)
(* status, a network fault) ends the invocation at once with the error of   *)
(* its kind and no further upstream call, also when it answers a retry that *)
(* followed earlier 429s.                                                   *)
(***************************************************************************)
TypedError(status) ==
  CASE status = 400 -> "Bad Request (400)"
    [] status = 401 -> "Authentication failed (401)"
    [] OTHER -> "API Error"

Resolved(req) ==
  IF Truthy(userApiKey(req)) THEN userApiKey(req) ELSE DEFAULT_API_KEY

C14_NoCredentialLeak ==
  IsPost => \A k \in 1..Len(last.keys) : last.keys[k] = Resolved(last.req)

(***************************************************************************)
(* C15: for requests handled one at a time, the upstream calls of a request *)
(* use the token the caller supplied with it (query parameter apiKey or     *)
(* header X-API-Key) when there is one and the default otherwise, also when *)
(* the request before supplied a token of its own.                          *)
(***************************************************************************)
Supplied(req) == Truthy(req.key) \/ Truthy(req.xkey)

C15_OwnTokenElseDefault ==
  IsPost =>
    /\ Len(last.keys) = last.calls
    /\ \A k \in 1..last.calls :
         /\ Supplied(last.req) => last.keys[k] \in {last.req.key, last.req.xkey}
         /\ Truthy(last.req.key) => last.keys[k] = last.req.key
         /\ ~Supplied(last.req) => last.keys[k] = DEFAULT_API_KEY

\* Witness of C15: a request without token, sent after one that had a token,
\* has made its upstream calls with the default
C15_Witness ==
  /\ IsPost /\ ~Supplied(last.req)
  /\ Truthy(last.rkBefore)
  /\ last.calls = 2
  /\ last.keys = <<"default_key", "default_key">>

(***************************************************************************)
(* C16 as claimed: when a request supplies no credential and no default is  *)
(* configured, every tool invocation fails with the configuration error     *)
(* 'No API key available', without any upstream call and without retry,     *)
(* and for tools/call the failure is a result with isError: true.           *)
(***************************************************************************)
NoCredential == ~Supplied(last.req) /\ ~Truthy(DEFAULT_API_KEY)

ConfigurationError ==
  /\ last.calls = 0 /\ last.replies = << >> /\ last.delays = << >>
  /\ ToolCallFailedWith("No API key available")
  /\ last.req.elems[1].method = "tools/call"
       => Answer.kind = "result" /\ Answer.isError = "true"

C16_Original ==
  (ToolCalled({"tools/call", "invoke"}, TOOLS) /\ NoCredential)
    => ConfigurationError

(***************************************************************************)
(* C16 as amended: when a request supplies no credential and no default is  *)
(* configured, every tool invocation whose handler gets to makeApiCall      *)
(* (every tools/call, and an invoke of a tool without arguments or with a   *)
(* params object) fails with the configuration error 'No API key            *)
(* available', without any upstream call and without retry, and for         *)
(* tools/call the failure is a result with isError: true.                   *)
(***************************************************************************)
HandlerGetsArguments ==
  \/ last.req.elems[1].method = "tools/call"
  \/ last.req.elems[1].hasArgs
  \/ last.req.elems[1].tool \in NoArgHandlers

C16_NoCredentialNoCall ==
  (ToolCalled({"tools/call", "invoke"}, TOOLS) /\ NoCredential
     /\ HandlerGetsArguments)
    => ConfigurationError

\* Witness of C16: a tools/call without any credential has failed as data
C16_Witness ==
  /\ ToolCalled({"tools/call"}, TOOLS) /\ NoCredential
  /\ last.calls = 0
  /\ Answer.kind = "result" /\ Answer.isError = "true"
  /\ Answer.msg = "No API key available"

(***************************************************************************)
(* C17: DELETE with an identifier that is in the session map removes that   *)
(* session and no other and reports success; with an identifier that is not *)
(* in the map it reports not-found (404); without session header it reports *)
(* a missing-parameter error (400); in both error cases the map is          *)
(* unchanged.                                                               *)
(***************************************************************************)
IsDelete == last.verb = "DELETE"

C17_DeleteOutcomes ==
  IsDelete =>
    LET sid == last.req.sid
    IN  /\ (Truthy(sid) /\ sid \in DOMAIN last.before)
             => /\ last.resp.status = 200
                /\ last.resp.bodyKind = "status"
                /\ DOMAIN sessions = DOMAIN last.before \ {sid}
                /\ \A i \in DOMAIN sessions : sessions[i] = last.before[i]
        /\ (Truthy(sid) /\ sid \notin DOMAIN last.before)
             => SessionNotFound(last.resp) /\ sessions = last.before
        /\ ~Truthy(sid)
             => SessionRequired(last.resp) /\ sessions = last.before

\* Witness of C17: one of two live sessions is deleted, the other stays
C17_Witness ==
  /\ IsDelete /\ last.resp.status = 200
  /\ DOMAIN last.before = SessionIds
  /\ DOMAIN sessions = SessionIds \ {last.req.sid}

(***************************************************************************)
(* C18: once a session identifier has been deleted, every further DELETE on *)
(* it yields session-not-found, never success, and leaves the session map   *)
(* as it was, however often it is repeated.                                 *)
(***************************************************************************)
C18_DeleteAgainNotFound ==
  (IsDelete /\ last.req.sid \in last.gone)
    => SessionNotFound(last.resp) /\ sessions = last.before

(***************************************************************************)
(* C19: every POST response that answers a processed initialize (a single   *)
(* initialize, or a batch that contains one) carries the Mcp-Session-Id     *)
(* header with the session resolved for the request: the newly minted       *)
(* identifier when the request supplied none, the supplied identifier       *)
(* otherwise; the identifier is in the session map when it is minted or     *)
(* resolved.                                                                *)
(***************************************************************************)
\* The last exchange is a POST that got past the version and session checks
Processed ==
  /\ IsPost
  /\ AcceptedVersion(last.req.ver)
  /\ \/ last.req.sid \in DOMAIN last.before
     \/ ~Truthy(last.req.sid) /\ bodyMethod(last.req) = "initialize"

\* The response is not the one of the catch block that ends the handler
\* when processing has broken off: that one answers no call
AnswersCalls == last.resp # InternalServerError

IsEntry(env) == env.kind \in {"result", "error"}
OneObject == IsObject(last.resp) /\ IsEntry(last.resp.body[1])
NoBody202 == last.resp.status = 202 /\ last.resp.bodyKind = "none"
ArrayOfEntries ==
  /\ last.req.batch /\ last.resp.bodyKind = "array"
  /\ \A k \in 1..Len(last.resp.body) : IsEntry(last.resp.body[k])

\* A handler leaves its slot only by sending the response to its request
RespondsOnce ==
  \A s \in Slots :
    (inflight[s] # Idle /\ inflight'[s] = Idle)
      => (last'.verb = "POST" /\ last'.req = inflight[s].req)
\* A handler that waits for the upstream or for a timer comes to its end
Terminates == \A s \in Slots : (inflight[s] # Idle) ~> (inflight[s] = Idle)

C20_Original ==
  /\ [](IsPost => (OneObject \/ NoBody202))
  /\ [][RespondsOnce]_vars
  /\ Terminates

(***************************************************************************)
(* What holds when no socket times out: every POST ends with exactly one    *)
(* HTTP response that is a JSON-RPC result, a JSON-RPC error object, the    *)
(* 202 without body or, for a batch, an array of results and error objects  *)
(* (an empty one when the batch has notifications only), and no fault       *)
(* escapes the handler; if every upstream call returns, this holds for      *)
(* every upstream behaviour, an upstream that answers 429 forever included. *)
(***************************************************************************)
C20_EveryPostAnswered ==
  /\ [](IsPost => (OneObject \/ NoBody202 \/ ArrayOfEntries))
  /\ [][RespondsOnce]_vars
  /\ Terminates

\* Witness of C20: an invoke has ended after four 429 answers in a row
C20_Witness ==
  /\ ToolCalled({"invoke"}, TOOLS)
  /\ last.replies = <<429, 429, 429, 429>>
  /\ last.calls = 4
  /\ OneObject
  /\ Answer.kind = "error"

(***************************************************************************)
(* The registry under use: the requests are an initialize, a tools/list and *)
(* a tools/call of every name that tools/list names, with its arguments;    *)
(* sessions come and go in between.                                         *)
(***************************************************************************)
ListedCalls ==
  {Element(1, "tools/call", TRUE, toolsList[k], TRUE) :
     k \in DOMAIN toolsList}
ToolRequests ==
  Requests({Undefined} \cup SessionIds, {VUndefined}, {Undefined},
           Singles({Element(0, "initialize", FALSE, Undefined, FALSE),
                    Element(0, "tools/list", FALSE, Undefined, FALSE)}
                   \cup ListedCalls),
           {})
  \cup
  Requests({Undefined} \cup SessionIds, {V_2025_06_18, V_2025_03_26},
           {Undefined},
           Singles({Element(1, "initialize", FALSE, Undefined, FALSE)}), {})

NextTools ==
  \/ Ready /\ \E req \in ToolRequests : Post(1, req)
  \/ \E s \in Slots, status \in RetryStatuses : AxiosReturns(s, status)
  \/ \E s \in Slots : TimerFires(s)
  \/ Ready /\ \E sid \in SessionIds : Delete(sid)
  \/ Receive

SpecTools == Init /\ [][NextTools]_vars

(***************************************************************************)
(* C21: tools/list returns exactly the tools of the registry, in the order  *)
(* of their registration, for every session and after every history; every  *)
(* name it returns has a handler, so that a tools/call of a listed name     *)
(* with its arguments is never answered with the tool-not-found or          *)
(* handler-not-found error (-32601).                                        *)
(***************************************************************************)
\* The last exchange is an identified tools/list that got past the checks
ToolsListed ==
  /\ IsPost /\ ~last.req.batch
  /\ last.req.sid \in DOMAIN last.before
  /\ last.req.elems[1] = Element(0, "tools/list", FALSE, Undefined, FALSE)

C21_ListIsRegistry ==
  /\ ToolsListed
       => /\ last.resp.status = 200 /\ IsObject(last.resp)
          /\ last.resp.body[1].kind = "result"
          /\ last.resp.body[1].tools = ObjectKeysTOOLS
          /\ \A k \in DOMAIN last.resp.body[1].tools :
               last.resp.body[1].tools[k] \in handlers
  /\ (ToolCalled({"tools/call"}, TOOLS) /\ last.req.elems[1].hasArgs)
       => ~HasErrorCode(last.resp, E_NOT_FOUND)

\* Witness of C21: after a session has been deleted, the last tool of the
\* list is called in another session and succeeds
C21_Witness ==
  /\ ToolCalled({"tools/call"}, {toolsList[Len(toolsList)]})
  /\ terminated # {}
  /\ last.resp.status = 200
  /\ last.resp.body[1].kind = "result"
  /\ last.resp.body[1].isError = "absent"

(***************************************************************************)
(* C22: the HTTP status of a POST response mirrors the error category of    *)
(* its body: an unsupported-protocol-version error has status 400, a        *)
(* session-not-found error has status 404, and a response whose body        *)
(* carries an internal or tool-dispatch fault (-32603) has status 500.      *)
(***************************************************************************)
\* Some object of the response body is an error with this code
CarriesErrorCode(resp, code) ==
  \E k \in DOMAIN resp.body :
    resp.body[k].kind = "error" /\ resp.body[k].code = code

C22_StatusMirrorsCategory ==
  IsPost =>
    /\ CarriesErrorCode(last.resp, E_VERSION) => last.resp.status = 400
    /\ CarriesErrorCode(last.resp, E_SESSION_NOT_FOUND)
         => last.resp.status = 404
    /\ CarriesErrorCode(last.resp, E_INTERNAL) => last.resp.status = 500

(***************************************************************************)
(* Overlapping requests of every verb: while a tool call waits for the      *)
(* upstream or for its backoff timer, the server takes POST, DELETE and GET *)
(* requests of other clients.                                               *)
(***************************************************************************)
OverlapRequests ==
  KeyRequests({Undefined} \cup SessionIds, {Undefined}, {Undefined},
              {<<Element(0, "initialize", FALSE, Undefined, FALSE)>>,
               <<GetCredits(1)>>})

AcceptPost ==
  \E s \in Slots, req \in OverlapRequests : FirstIdle(s) /\ Post(s, req)
AcceptDelete == \E sid \in SessionIds : Delete(sid)

NextOverlap ==
  \/ last = NoExchange /\ AcceptPost
  \/ \E s \in Slots, status \in RetryStatuses :
       FirstAttemptLimited(s, status) /\ AxiosReturns(s, status)
  \/ \E s \in Slots : TimerFires(s)
  \/ last = NoExchange /\ AcceptDelete
  \/ last = NoExchange /\ Get
  \/ Receive

SpecOverlap == Init /\ [][NextOverlap]_vars

(***************************************************************************)
(* C23: while one request is suspended in an upstream call or in a retry    *)
(* backoff wait, other requests (POST, DELETE, GET) are still accepted and  *)
(* can run to completion before the suspended request finishes: a request   *)
(* that backs off never blocks another one.                                 *)
(***************************************************************************)
Waiting(s) == inflight[s].pc \in {"axios", "timer"}
\* The step completes an exchange and leaves every suspended handler as it is
BesideTheSuspended ==
  /\ last' # NoExchange
  /\ \A s \in Slots : Waiting(s) => inflight'[s] = inflight[s]
PostCompletes == AcceptPost /\ BesideTheSuspended
DeleteCompletes == AcceptDelete /\ BesideTheSuspended
GetCompletes == Get /\ BesideTheSuspended

C23_OthersServedMeanwhile ==
  (/\ \E s \in Slots : Waiting(s)
   /\ \E s \in Slots : inflight[s] = Idle
   /\ last = NoExchange)
    => /\ ENABLED PostCompletes
       /\ ENABLED DeleteCompletes
       /\ ENABLED GetCompletes

\* Witness of C23: a tool call has been answered after an upstream call of
\* its own while the handler of another request is still in its backoff
C23_Witness ==
  /\ IsPost /\ last.calls >= 1
  /\ last.resp.status = 200
  /\ \E s \in Slots : inflight[s].pc = "timer"

(***************************************************************************)
(* The usage accounting at work: the server has started with any analytics  *)
(* file, and clients send POST, DELETE and GET requests one at a time.      *)
(***************************************************************************)
AccountedRequests ==
  KeyRequests({Undefined} \cup SessionIds, {Undefined}, {Undefined},
              {<<Element(0, "initialize", FALSE, Undefined, FALSE)>>,
               <<Element(0, "tools/list", FALSE, Undefined, FALSE)>>,
               <<GetCredits(1)>>})

NextAccounting ==
  \/ Ready /\ \E req \in AccountedRequests : Post(1, req)
  \/ \E s \in Slots, status \in RetryStatuses : AxiosReturns(s, status)
  \/ \E s \in Slots : TimerFires(s)
  \/ Ready /\ \E sid \in SessionIds : Delete(sid)
  \/ Ready /\ Get
  \/ Receive

SpecAccounting == InitLoaded /\ [][NextAccounting]_vars

(***************************************************************************)
(* C24: a failure of the usage accounting (trackRequest on a POST, GET or   *)
(* DELETE, trackToolCall on a tools/call) never changes the outcome of the  *)
(* request: it gets the response and has the effect on the session map it   *)
(* would have had with the accounting succeeding.                           *)
(***************************************************************************)
\* What the handlers answer and do when the accounting succeeds
GetOutcome == last.resp.status = 200 /\ last.resp.bodyKind = "status"
DeleteOutcome ==
  IF last.req.sid \in DOMAIN last.before
  THEN /\ last.resp.status = 200
       /\ sessions = sessionsDelete(last.before, last.req.sid)
  ELSE /\ last.resp.status = 404
       /\ sessions = last.before
PostOutcome ==
  LET el == last.req.elems[1]
      known == last.req.sid \in DOMAIN last.before
      mints == ~Truthy(last.req.sid) /\ el.method = "initialize"
  IN  /\ last.resp.bodyKind = "object"
      /\ mints => /\ last.resp.status = 200
                  /\ last.resp.sidHdr \in DOMAIN sessions
      /\ ~mints /\ ~known
           => last.resp.status \in {400, 404} /\ sessions = last.before
      /\ known
           => /\ last.resp.status = 200 /\ sessions = last.before
              /\ last.resp.body[1].kind = "result"
              /\ last.resp.body[1].id = el.id

C24_AccountingNeverInterferes ==
  /\ last.verb = "GET" => GetOutcome
  /\ last.verb = "DELETE" => DeleteOutcome
  /\ last.verb = "POST" => PostOutcome

(***************************************************************************)
(* Requests against an upstream that may be slow: the socket of a request   *)
(* whose handler waits may time out.                                        *)
(***************************************************************************)
TimedRequests ==
  KeyRequests({Undefined} \cup SessionIds, {Undefined}, {Undefined},
              {<<Element(0, "initialize", FALSE, Undefined, FALSE)>>,
               <<GetCredits(1)>>, <<GetCredits(0), GetCredits(1)>>})

NextTimeout ==
  \/ Ready /\ \E req \in TimedRequests : Post(1, req)
  \/ \E s \in Slots, status \in RetryStatuses : AxiosReturns(s, status)
  \/ \E s \in Slots : TimerFires(s)
  \/ \E s \in Slots : SocketTimeout(s)
  \/ Receive

SpecTimeout == Init /\ [][NextTimeout]_vars

(***************************************************************************)
(* C25: each POST request/response cycle is bounded by a timeout of 30      *)
(* time units: when the dispatch has not finished by then, the client       *)
(* still gets a well-formed error response, not a hang and not a dropped    *)
(* connection.                                                              *)
(***************************************************************************)
C25_TimeoutStillAnswered ==
  IsPost =>
    /\ last.resp.bodyKind \in {"object", "array", "none"}
    /\ last.resp.status \in {200, 202, 400, 404, 500}

(***************************************************************************)
(* C26: a POST that consists of notifications only and passes the version   *)
(* and session checks (a single request without identifier, or a batch in   *)
(* which no element has one) is answered with HTTP 202 and no body.         *)
(***************************************************************************)
OnlyNotifications(req) ==
  /\ Len(req.elems) >= 1
  /\ \A k \in DOMAIN req.elems : IsNotification(req.elems[k])

C26_NotificationsGet202 ==
  (Processed /\ OnlyNotifications(last.req))
    => last.resp.status = 202 /\ last.resp.bodyKind = "none"

(***************************************************************************)
(* C27: an initialize that presents a known session identifier resolves to  *)
(* that session: no session is minted, the session map (identifiers and     *)
(* creation times) stays as it is, and the request goes on to dispatch.     *)
(***************************************************************************)
\* The last exchange is a single initialize sent with a known identifier
InitializeInSession ==
  /\ IsPost /\ ~last.req.batch
  /\ AcceptedVersion(last.req.ver)
  /\ last.req.elems[1].method = "initialize"
  /\ last.req.sid \in DOMAIN last.before

C27_InitializeKeepsSession ==
  InitializeInSession =>
    LET el == last.req.elems[1]
    IN  /\ sessions = last.before
        /\ last.resp.sidHdr = last.req.sid
        /\ IF IsNotification(el)
           THEN last.resp.status = 202 /\ last.resp.bodyKind = "none"
           ELSE /\ last.resp.status = 200 /\ IsObject(last.resp)
                /\ last.resp.body[1] = InitializeResult(el)

\* Witness of C27: an identified initialize is answered in a session that
\* was created at an earlier time, and the creation time is still that one
C27_Witness ==
  /\ InitializeInSession
  /\ ~IsNotification(last.req.elems[1])
  /\ last.resp.status = 200
  /\ sessions[last.req.sid].createdAt < now

(***************************************************************************)
(* C28: method dispatch only reads the session map: processing initialize,  *)
(* tools/list, tools/call, invoke or an unsupported method, with success or *)
(* with any error, and handling GET or OPTIONS, never adds, removes or      *)
(* alters a session; the map changes only when session resolution mints a   *)
(* session and when a DELETE succeeds.                                      *)
(***************************************************************************)
\* The step is the POST of an initialize without identifier, and the map has
\* gained the session it was answered with
MintStep ==
  /\ IsMintExchange(last')
  /\ last'.resp.sidHdr \in SessionIds
  /\ sessions' = sessionsSet(sessions, last'.resp.sidHdr, now)
\* The step is a DELETE that succeeded, and the map has lost that session
DeleteStep ==
  /\ IsDeleteOk(last')
  /\ sessions' = sessionsDelete(sessions, last'.req.sid)

C28_DispatchOnlyReads ==
  [][sessions' # sessions => (MintStep \/ DeleteStep)]_vars

\* Witness of C28: an invoke has failed after an upstream call, and the map
\* with the session it ran in is as it was when the request arrived
C28_Witness ==
  /\ ToolCalled({"invoke"}, TOOLS)
  /\ last.calls >= 1
  /\ HasErrorCode(last.resp, E_INTERNAL)
  /\ sessions = last.before
  /\ sessions[last.req.sid].createdAt < now

(***************************************************************************)
(* C29: the elements of a batch are independent units: when the processing  *)
(* of one element raises an unexpected fault, that element alone is         *)
(* answered with an internal error (-32603) that carries its identifier,    *)
(* and every other element is processed and answered as it would be in a    *)
(* batch without the faulty element.                                        *)
(***************************************************************************)
\* Processing the element raises a fault: it is not an object, or it is an
\* identified tools/call or invoke without params
Faulty(el) ==
  \/ ~el.isObject
  \/ /\ ~IsNotification(el)
     /\ el.method \in {"tools/call", "invoke"}
     /\ ~el.hasParams
\* The elements that are answered: the identified and the faulty ones
Answered(elems) ==
  SelectSeq(elems, LAMBDA e : Faulty(e) \/ ~IsNotification(e))

C29_BatchElementsIndependent ==
  PassedBatch =>
    LET asked == Answered(last.req.elems)
    IN  /\ last.resp.status = 200
        /\ last.resp.bodyKind = "array"
        /\ Len(last.resp.body) = Len(asked)
        /\ \A k \in 1..Len(asked) :
             LET env == last.resp.body[k]
             IN  /\ env.id = asked[k].id
                 /\ Faulty(asked[k])
                      => env.kind = "error" /\ env.code = E_INTERNAL
                 /\ ~Faulty(asked[k])
                      => /\ Answers(env, asked[k])
                         /\ env.code # E_INTERNAL

(***************************************************************************)
(* C30: within one batch the elements are processed strictly in array order *)
(* and one at a time: the processing of element i+1, its upstream call      *)
(* included, starts only after element i has produced its outcome, with all *)
(* of its retries and backoff waits.                                        *)
(***************************************************************************)
NonDecreasing(seq) ==
  \A k \in 1..(Len(seq) - 1) : seq[k] <= seq[k + 1]
\* The handler in slot s waits in the call of element idx: every call so far
\* was made for an element up to idx, in array order, and the outcomes
\* collected are those of the elements before idx, in array order
InOrderSoFar(s) ==
  LET f == inflight[s]
      earlier == Answered(SubSeq(f.req.elems, 1, f.idx - 1))
  IN  /\ f.idx \in 1..Len(f.req.elems)
      /\ Len(f.up.idxs) >= 1
      /\ NonDecreasing(f.up.idxs)
      /\ f.up.idxs[Len(f.up.idxs)] = f.idx
      /\ Len(f.responses) = Len(earlier)
      /\ \A k \in 1..Len(earlier) : f.responses[k].id = earlier[k].id

C30_ElementsInOrder ==
  /\ \A s \in Slots :
       (inflight[s] # Idle /\ inflight[s].req.batch) => InOrderSoFar(s)
  /\ (IsPost /\ last.req.batch) => NonDecreasing(last.idxs)

\* Witness of C30: the third element of a batch waits in its retry after a
\* 429 answer; the first element had its retry too, and both earlier
\* elements have their outcomes
C30_Witness ==
  \E s \in Slots :
    /\ inflight[s] # Idle /\ inflight[s].req.batch
    /\ inflight[s].idx = 3
    /\ inflight[s].pc = "axios"
    /\ inflight[s].up.idxs = <<1, 1, 3, 3>>
    /\ Len(inflight[s].responses) = 2

(***************************************************************************)
(* C31: every identified request whose method is none of initialize,        *)
(* tools/list, tools/call and invoke is answered with the                   *)
(* method-not-supported error, code -32601, with no upstream call and no    *)
(* change of state.                                                         *)
(***************************************************************************)
SupportedMethods == {"initialize", "tools/list", "tools/call", "invoke"}
Unsupported(el) ==
  el.isObject /\ ~IsNotification(el) /\ el.method \notin SupportedMethods
MethodNotSupported(el) == Error(el.id, E_NOT_FOUND, "Method not supported")

C31_UnsupportedMethod ==
  /\ (Processed /\ ~last.req.batch /\ Unsupported(last.req.elems[1]))
       => /\ last.resp =
               Response(200, Undefined, "object",
                        <<MethodNotSupported(last.req.elems[1])>>)
          /\ last.calls = 0
          /\ sessions = last.before
  /\ (PassedBatch /\ last.resp.bodyKind = "array")
       => /\ sessions = last.before
          /\ \A i \in DOMAIN last.req.elems :
               Unsupported(last.req.elems[i])
                 => LET k == Len(Answered(SubSeq(last.req.elems, 1, i)))
                    IN  /\ last.resp.body[k] =
                             MethodNotSupported(last.req.elems[i])
                        /\ \A j \in DOMAIN last.idxs : last.idxs[j] # i

\* Witness of C31: an identified ping in a live session is answered so
C31_Witness ==
  /\ Processed /\ ~last.req.batch
  /\ last.req.elems[1].method = "ping"
  /\ last.req.elems[1].id = 1
  /\ last.req.sid \in DOMAIN last.before
  /\ HasErrorCode(last.resp, E_NOT_FOUND)

(***************************************************************************)
(* C32: the result of initialize holds the protocol version, the            *)
(* capabilities object and the server identity and does not list the tools; *)
(* it is the same for every caller, whatever protocol-version marker was    *)
(* sent, whether the session was minted or reused, and whatever happened    *)
(* before.                                                                  *)
(***************************************************************************)
\* The last exchange is a single identified initialize that was dispatched
InitializeDispatched ==
  /\ Processed /\ ~last.req.batch
  /\ last.req.elems[1].method = "initialize"
  /\ ~IsNotification(last.req.elems[1])

ErrorRequests ==
  Requests({Undefined} \cup SessionIds, {VUndefined}, {Undefined},
           Singles({Element(0, "initialize", FALSE, Undefined, FALSE),
                    Element(1, "tools/call", TRUE, "get_credits", TRUE),
                    Element(1, "invoke", TRUE, "get_credits", TRUE)}),
           {})

NextErrors ==
  \/ Ready /\ \E req \in ErrorRequests : Post(1, req)
  \/ \E s \in Slots, status \in UpstreamStatuses, data \in Payloads :
       AxiosSettles(s, status, data)
  \/ \E s \in Slots : TimerFires(s)
  \/ Receive

SpecErrors == Init /\ [][NextErrors]_vars

(***************************************************************************)
(* C33: when the upstream service answers 400, the error of makeApiCall     *)
(* reads 'Bad Request (400): ' followed by the upstream message and by at   *)
(* most one guidance sentence: the one about credits when the message       *)
(* mentions credit, else the one about the plan when it mentions            *)
(* subscription or plan, else the one about rate limits when it mentions    *)
(* limit or rate, else none; and this for every form of the 400's body.     *)
(***************************************************************************)
\* A registered tool was called and the last upstream answer was this status
EndedWith(status) ==
  /\ ToolCalled({"tools/call", "invoke"}, TOOLS)
  /\ last.replies # << >>
  /\ last.replies[Len(last.replies)] = status

FirstMatch(words) ==
  IF "credit" \in words THEN "credits"
  ELSE IF {"subscription", "plan"} \cap words # {} THEN "plan"
  ELSE IF {"limit", "rate"} \cap words # {} THEN "rate"
  ELSE "none"

C33_BadRequestGuidance ==
  EndedWith(400) =>
    /\ ToolCallFailedWith("Bad Request (400)")
    /\ Answer.detail.status = "400"
    /\ Answer.detail.upstream # "none"
    /\ Answer.detail.guidance = FirstMatch(Answer.detail.words)
    /\ last.data.form \in {"message", "string"}
         => Answer.detail.words = last.data.words

(***************************************************************************)
(* C34: the classification of a failed upstream call is total and depends   *)
(* on the status alone: 401 gives the fixed authentication message with     *)
(* nothing of the upstream message in it, a 429 that ends the retries gives *)
(* the fixed rate-limit message, 400 gives the bad-request error, and every *)
(* other status, and a network fault without status, gives                  *)
(* 'API Error (<status or unknown>)' with the upstream message.             *)
(***************************************************************************)
Classified(status) ==
  CASE status = 400 -> ToolCallFailedWith("Bad Request (400)")
    [] status = 401 ->
         /\ ToolCallFailedWith("Authentication failed (401)")
         /\ Answer.detail = NoDetail
    [] status = 429 ->
         /\ ToolCallFailedWith("Rate limit exceeded (429)")
         /\ Answer.detail = NoDetail
         /\ Len(last.replies) = MaxRetries + 1
    [] OTHER ->
         /\ ToolCallFailedWith("API Error")
         /\ Answer.detail.status =
              (IF status = NetworkFault THEN "unknown" ELSE ToString(status))
         /\ Answer.detail.upstream # "none"
         /\ Answer.detail.guidance = "none"

registerTool(status, retryCount, data) ==
  IF status = 200
  THEN [thrown |-> FALSE, content |-> <<"text">>, isError |-> "absent",
        text |-> "formatted"]
  ELSE [thrown |-> FALSE, content |-> <<"text">>, isError |-> "true",
        text |-> thrown(status, retryCount, data).msg]

C35_OneTextBlock ==
  ToolCalled({"tools/call"}, TOOLS) =>
    /\ last.resp.status = 200 /\ IsObject(last.resp)
    /\ Answer.kind = "result"
    /\ Answer.content = <<"text">>
    /\ \/ Answer.isError = "absent" /\ Answer.msg = "formatted"
       \/ Answer.isError = "true" /\ Answer.msg # "formatted"
    /\ last.replies # << >> =>
         LET r == registerTool(last.replies[Len(last.replies)],
                               Len(last.replies) - 1, last.data)
         IN  /\ ~r.thrown
             /\ r.content = <<"text">>
             /\ r.isError = Answer.isError /\ r.text = Answer.msg

C35_Witness ==
  /\ ToolCalled({"tools/call"}, TOOLS)
  /\ last.replies = <<429, 400>>
  /\ last.data.form = "object"
  /\ Answer.content = <<"text">> /\ Answer.isError = "true"
  /\ Answer.msg = "TypeError"

(***************************************************************************)
(* C36: the session of a batch is resolved once, from the headers of the    *)
(* POST alone: with a known session identifier the elements are dispatched  *)
(* under that session and none of them changes the session map; without a   *)
(* session identifier the batch is rejected as a whole with                 *)
(* session-required, no session is created and no element is dispatched,    *)
(* also when one of the elements is an initialize.                          *)
(***************************************************************************)
\* The last exchange is a batch POST that got past the version check
BatchResolved ==
  /\ IsPost /\ last.req.batch
  /\ AcceptedVersion(last.req.ver)

InitializeNotification ==
  /\ IsPost /\ ~last.req.batch
  /\ AcceptedVersion(last.req.ver)
  /\ ~Truthy(last.req.sid)
  /\ last.req.elems[1].method = "initialize"
  /\ IsNotification(last.req.elems[1])

MaxRequests == 3

InitCounted ==
  /\ Started
  /\ analytics = [requests |-> TRUE, tools |-> TRUE,
                  counters |-> zeroCounters]

CountedElements ==
  {Element(1, "tools/call", TRUE, "get_credits", TRUE),
   Element(1, "tools/call", TRUE, "get_credit_balance", TRUE),
   Element(1, "tools/call", TRUE, "constructor", TRUE),
   Element(0, "tools/call", FALSE, Undefined, FALSE),
   Element(IdUndefined, "tools/call", TRUE, "get_credits", TRUE),
   Element(IdNull, "invoke", TRUE, "get_credits", TRUE),
   Element(1, "invoke", TRUE, "get_credits", TRUE)}
CountedRequests ==
  Requests({Undefined} \cup SessionIds, {VUndefined}, {"key_q"},
           Singles({Element(0, "initialize", FALSE, Undefined, FALSE)}
                   \cup CountedElements),
           {<<Element(IdUndefined, "tools/call", TRUE, "get_credits", TRUE),
              Element(0, "tools/call", TRUE, "get_credits", TRUE),
              Element(1, "tools/call", TRUE, "get_countries", TRUE)>>})

MayRequest == Ready /\ analytics.counters.totalRequests < MaxRequests

NextCounted ==
  \/ MayRequest /\ \E req \in CountedRequests : Post(1, req)
  \/ \E s \in Slots, status \in BatchStatuses : AxiosReturns(s, status)
  \/ \E s \in Slots : TimerFires(s)
  \/ MayRequest /\ \E sid \in SessionIds : Delete(sid)
  \/ MayRequest /\ Get
  \/ MayRequest /\ Health
  \/ Receive
  \/ Ready /\ Tick

SpecCounted == InitCounted /\ [][NextCounted]_vars

(***************************************************************************)
(* C38: a notification is dropped before dispatch: a request without        *)
(* identifier (absent or null) whose method is tools/call or invoke causes  *)
(* no upstream call, runs no tool handler and leaves the counters of tool   *)
(* calls as they were, whatever its parameters.                             *)
(***************************************************************************)
\* The last exchange is a single tools/call or invoke without identifier
\* that got past the session check
ToolNotification ==
  /\ IsPost /\ ~last.req.batch
  /\ AcceptedVersion(last.req.ver)
  /\ last.req.sid \in DOMAIN last.before
  /\ IsNotification(last.req.elems[1])
  /\ last.req.elems[1].method \in {"tools/call", "invoke"}

\* The counters trackToolCall writes
ToolCallCounters(a) ==
  <<a.counters.totalToolCalls, a.counters.toolCalls,
    a.counters.recentToolCalls>>

C38_NotificationsDropped ==
  /\ [](/\ ToolNotification
            => /\ last.resp.status = 202 /\ last.resp.bodyKind = "none"
               /\ last.calls = 0 /\ last.replies = << >>
        /\ \A s \in Slots :
             inflight[s] # Idle
               => ~IsNotification(inflight[s].req.elems[inflight[s].idx]))
  /\ [][ToolNotification'
         => ToolCallCounters(analytics') = ToolCallCounters(analytics)]_vars

\* Witness of C38: a tools/call notification with a registered name and
\* arguments is answered 202 after one tool call has been counted, and one
\* is what the counters show
C38_Witness ==
  /\ ToolNotification
  /\ last.req.elems[1] =
       Element(IdUndefined, "tools/call", TRUE, "get_credits", TRUE)
  /\ last.resp.status = 202
  /\ analytics.counters.totalRequests = 3
  /\ analytics.counters.totalToolCalls = 1
  /\ Len(analytics.counters.recentToolCalls) = 1

(***************************************************************************)
(* C40: from the default analytics on, after any interleaving of requests,  *)
(* totalRequests is the sum of requestsByMethod and the sum of              *)
(* requestsByEndpoint; totalToolCalls is the sum of toolCalls, one for      *)
(* every identified tools/call with params, whether the tool exists or not; *)
(* recentToolCalls holds at most MAX_RECENT_CALLS entries, the newest       *)
(* first.                                                                   *)
(***************************************************************************)
RECURSIVE SumOf(_)
\* The sum of the values of a table, when all of them are numbers
SumOf(table) ==
  IF DOMAIN table = {} THEN 0
  ELSE LET k == CHOOSE k \in DOMAIN table : TRUE
       IN  table[k].n + SumOf([j \in DOMAIN table \ {k} |-> table[j]])
AllNumbers(table) == \A k \in DOMAIN table : table[k].type = "number"
SumsTo(table, total) == AllNumbers(table) /\ SumOf(table) = total

NewestFirst(recent) ==
  \A k \in 1..(Len(recent) - 1) : recent[k].timestamp >= recent[k + 1].timestamp

C40_CountersConsistent ==
  LET c == analytics.counters
  IN  /\ SumsTo(c.requestsByMethod, c.totalRequests)
      /\ SumsTo(c.requestsByEndpoint, c.totalRequests)
      /\ SumsTo(c.toolCalls, c.totalToolCalls)
      /\ Len(c.recentToolCalls) = Min(c.totalToolCalls, MAX_RECENT_CALLS)
      /\ NewestFirst(c.recentToolCalls)
      /\ \A k \in DOMAIN c.recentToolCalls :
           c.recentToolCalls[k].tool \in DOMAIN c.toolCalls

(***************************************************************************)
(* Sessions deleted under way: clients send initialize and a batch of a     *)
(* tools/list and two tool calls, while other clients send DELETE for the   *)
(* sessions in use.                                                         *)
(***************************************************************************)
UnderwayRequests ==
  Requests({Undefined} \cup SessionIds, {VUndefined}, {Undefined},
           Singles({Element(0, "initialize", FALSE, Undefined, FALSE)}),
           {<<Element(0, "tools/list", FALSE, Undefined, FALSE),
              GetCredits(0), GetCredits(1)>>})
UnderwayStatuses == {200, 401, 429}

NextUnderway ==
  \/ /\ last = NoExchange
     /\ \E s \in Slots, req \in UnderwayRequests : FirstIdle(s) /\ Post(s, req)
  \/ \E s \in Slots, status \in UnderwayStatuses :
       FirstAttemptLimited(s, status) /\ AxiosReturns(s, status)
  \/ \E s \in Slots : TimerFires(s)
  \/ last = NoExchange /\ \E sid \in SessionIds : Delete(sid)
  \/ Receive

SpecUnderway == Init /\ [][NextUnderway]_vars

(***************************************************************************)
(* C39: the session is checked once, when the POST is accepted: when the    *)
(* session of a request that waits for an upstream call or for a backoff    *)
(* timer is removed by a DELETE, the request still completes, with its      *)
(* normal result or error for every remaining element, and the session is   *)
(* not created again.                                                       *)
(***************************************************************************)
\* The last exchange is a POST that was accepted in a session which is gone
\* now that it completes
SessionGoneUnderway ==
  /\ IsPost
  /\ last.req.sid \in DOMAIN last.before
  /\ last.req.sid \notin DOMAIN sessions

\* The text of the error for a final upstream answer other than success
TypedError429(status) ==
  IF status = 429 THEN "Rate limit exceeded (429)" ELSE TypedError(status)

\* The last upstream answer for element i of the last exchange
FinalReply(i) ==
  LET ks == {k \in DOMAIN last.idxs : last.idxs[k] = i}
  IN  last.replies[CHOOSE k \in ks : \A j \in ks : j <= k]

\* What a request element is answered with in a session that lives
NormalAnswer(i) ==
  LET el == last.req.elems[i]
  IN  IF el.method = "tools/list" THEN ToolsListResult(el)
      ELSE IF FinalReply(i) = 200 THEN ToolSucceeded(el)
      ELSE ToolFailed(el, TypedError429(FinalReply(i)))

\* A handler that was waiting has moved
HandlerMoves ==
  \E s \in Slots : Waiting(s) /\ inflight'[s] # inflight[s]

C39_DeletedSessionStillServed ==
  /\ [](SessionGoneUnderway =>
          /\ last.resp.status = 200
          /\ Len(last.resp.body) = Len(last.req.elems)
          /\ \A i \in DOMAIN last.req.elems :
               last.resp.body[i] = NormalAnswer(i))
  /\ [][HandlerMoves => sessions' = sessions]_vars

\* Witness of C39: a batch of three, accepted in a session, completes when
\* the session map is empty; its first call was answered with 200, its
\* second with 429 and, after the backoff, with 401
C39_Witness ==
  /\ SessionGoneUnderway
  /\ last.req.batch
  /\ sessions = << >>
  /\ last.replies = <<200, 429, 401>>
  /\ last.idxs = <<2, 3, 3>>
  /\ Len(last.resp.body) = 3

====
